---------------------------- MODULE Spec2Model ----------------------------
(***************************************************************************)
(* BSS-Batch-Manager: the remote driver (batch_submission_script.py) and   *)
(* the local controller (batch_submit.py, ssh_utils.receive_batches).      *)
(*                                                                         *)
(* Spec     the remote driver: main / submit_batch / clean_finished_jobs,  *)
(*          running against a grid-engine queue that it does not own.      *)
(* SpecCtl  the controller: batch_submit.main and receive_batches against  *)
(*          the remote file system the driver leaves behind.               *)
(* SpecClean    the cleanup of one finished job directory (clean_job).     *)
(* SpecArchive  one result archive, from make_archive to extractall.       *)
(* SpecLand     one call of ssh_utils.land_directory.                      *)
(* SpecSweep    one call of clean_finished_jobs, statement by statement.   *)
(* SpecQstat    one call of import_qstat, line by line.                    *)
(* SpecDrivers  several drivers of one owner submitting to one queue.      *)
(* SpecBoot     successive runs of initialise_remote against one host.     *)
(*                                                                         *)
(* Time.  The driver reads the clock only in differences that are compared *)
(* with a threshold (end_time - start_time > ASSUMPTION_TIME, line 196;    *)
(* time.time() - start_time > TIMEOUT, line 260).  The model therefore     *)
(* keeps, for every stamp, the time elapsed since it was taken, in steps   *)
(* of one sleep interval and saturated at the first value above the        *)
(* threshold it is compared with.  Any amount of time can pass.            *)
(***************************************************************************)
EXTENDS Integers, Sequences, FiniteSets, TLC

(***************************************************************************)
(* Bounds of the model.                                                    *)
(***************************************************************************)
\* largest number of job directories in a batch
MaxJobs == 10
\* largest number of queue entries the same owner has outside this batch
MaxOthers == 1
\* number of runs of the batch; the controller submits the last of them
MaxRuns == 2

(***************************************************************************)
(* Program constants.  MAX_PARALLEL_JOBS (500 in the source), the driver's  *)
(* TIMEOUT (30 days) and the controller's TIMEOUT (5 months, CTL_TIMEOUT   *)
(* here) are scaled down; every other value is the source's.  Times are in *)
(* seconds.                                                                *)
(***************************************************************************)
MAX_PARALLEL_JOBS == 2
ASSUMPTION_TIME == 10
TIMEOUT == 25
SLEEP_INTERVAL == 5
cleaning_interval == 5
PROGRESS_DIVISOR == 10
CTL_TIMEOUT == 10
interval == 5

VARIABLES
    \* ---- remote driver ------------------------------------------------
    d_pc,            \* position of the driver in main / submit_batch
    writable,        \* os.access(run_path.parent, W_OK)
    batch_zip,       \* the batch zip in the run directory: ok, missing, bad
    num_jobs,        \* number of job directories of the batch
    next_job,        \* job directories the for loop has consumed
    counter,         \* submit_batch's counter
    submitted_jobs,  \* queue name -> time since its submission stamp
    elapsed,         \* time since start_time of line 257
    day_passed,      \* time.time() - start_time (line 237) >= 24 h
    sweep_ctx,       \* the call of clean_finished_jobs in progress
    exc,             \* the exception that ended submit_batch, or "none"
    exit_code,       \* the driver's exit status, -1 while it runs
    return_zip,      \* <run>.zip next to the run directory
    flag_exists,     \* <run>_completion_flag exists
    run_dir,         \* the run directory exists
    \* ---- the grid engine ----------------------------------------------
    queue,           \* this batch's jobs: none, active (qw / r), Eqw
    others,          \* the owner's queue entries of other batches
    \* ---- what has happened (read by the properties only) --------------
    qsub_log,        \* job directories handed to qsub, in order
    tracked_log,     \* jobs for which a submitted_jobs entry was made
    observed_eqw,    \* jobs a sweep saw in state Eqw
    qdel_ids,        \* jobs for which qdel was issued
    engine_failure,  \* the engine rejected a submission or put a job in Eqw
    drain_exit,      \* how the drain loop ended: none, empty, timeout
    left_tracked,    \* submit_batch ended with entries in submitted_jobs
    flag_touches,    \* number of times the flag was created
    emergency_cleaned, \* emergency_clean of line 270 has run
    qstat_unparsed,  \* a sweep met qstat lines that import_qstat cannot parse
    idle_iters,      \* drain iterations in a row that ran no sweep
    loop_sweeps,     \* calls of the sweep made by the submission loop
    admit_wait,      \* time the admission loop of line 241 has been waiting
    teardown_log,    \* final sweep, emergency clean, archive, flag: as run
    cleaned,         \* jobs whose directory a sweep has cleaned
    \* ---- controller: batch_submit.main ---------------------------------
    c_pc,            \* position of batch_submit.main
    c_elapsed,       \* time since start_time of wait_for_completion
    c_failed,        \* the step that ended main, or "none"
    c_exit,          \* the controller's exit status, -1 while it runs
    successful,      \* main's successful: set at line 138, cleared at 230
    \* ---- controller: receive_batches -----------------------------------
    r_pc,            \* position of receive_batches
    r_todo,          \* runs whose flag was listed and is still to be handled
    r_run,           \* the run being received, 0 for none
    \* ---- files, per run ------------------------------------------------
    drv,             \* the driver launched for the controller's run
    remote_zip,      \* <batch>_run_<r>.zip exists on the host
    remote_flag,     \* <batch>_run_<r>_completion_flag exists on the host
    local_zip,       \* the local copy of the archive: absent, partial, full
    extracted,       \* run_<r> holds the extracted archive
    bmr,             \* ~/BSS-Batch-Manager-Remote: absent, empty_dir, installed
    c_boot,          \* what initialise_remote found, met and did
    c_trace,         \* the phases main has gone through, with how each ended
    \* ---- what has happened (read by the properties only) --------------
    ctl_log          \* per process, its transfers and deletions, in order

VARIABLES
    \* ---- one job directory under clean_job ----------------------------
    job_dir,         \* the paths present in the job directory
    dir_initial,     \* job_dir before the first cleanup
    dir_after_first, \* job_dir after the first cleanup
    clean_runs,      \* number of cleanups applied to the job
    clean_exc        \* exception a cleanup raised, "none" if none

dvars == <<d_pc, writable, batch_zip, num_jobs, next_job, counter,
           submitted_jobs, elapsed, day_passed, sweep_ctx,
           exc, exit_code, return_zip, flag_exists, run_dir, queue, others,
           qsub_log, tracked_log, observed_eqw, qdel_ids,
           engine_failure, drain_exit, left_tracked, flag_touches,
           emergency_cleaned, qstat_unparsed, idle_iters, loop_sweeps,
           admit_wait, teardown_log, cleaned>>

cvars == <<c_pc, c_elapsed, c_failed, c_exit, successful, r_pc, r_todo,
           r_run, drv,
           remote_zip, remote_flag, local_zip, extracted, ctl_log,
           bmr, c_boot, c_trace>>

VARIABLES
    \* ---- one result archive, from the run directory to the controller --
    a_pc,            \* next step: pack, log, get, extract, done or failed
    run_files,       \* the files in the remote run directory when packed
    packed_ok,       \* shutil.make_archive returned normally
    a_zip,           \* the remote <run>.zip: whether it exists, its names
    a_local,         \* the names in the local copy of the zip
    a_extracted      \* the files in the local run_<n> directory

VARIABLES
    \* ---- one call of land_directory ------------------------------------
    l_pc,            \* call, unwind (after the recursive call), returned, raised
    l_target,        \* the path asked for, as its depth below "/"
    l_level,         \* remote_path of the frame that is running, as a depth
    l_dirs,          \* the prefixes of the path that exist on the remote
    l_initial,       \* l_dirs before the call
    l_refuse,        \* prefixes the server refuses to create
    l_cwd,           \* the sftp client's working directory, -1 if unset
    l_mkdirs         \* the sftp.mkdir calls made, in order

VARIABLES
    \* ---- one call of clean_finished_jobs -------------------------------
    s_pc,            \* classify, clean, delete, returned or raised
    s_ignore_time,   \* the argument ignore_time
    s_submitted,     \* the argument submitted_jobs: name -> time since stamp
    s_before,        \* s_submitted when the call was made
    s_qstat,         \* the owner's queue: name -> none, active or Eqw
    s_snapshot,      \* what import_qstat returned at line 199
    s_outputs,       \* jobs whose directory holds a <batch>_<job>.o* file
    s_finished,      \* finished_jobs of line 200
    s_errored,       \* errored_jobs of line 210
    s_todo,          \* finished jobs the loop of line 201 has not reached
    s_cleaned,       \* jobs clean_job was called on
    s_warned,        \* jobs for which "qsub log not found" was logged
    s_exc            \* the exception that ended the call, "none" if none

VARIABLES
    \* ---- one call of import_qstat --------------------------------------
    q_pc,            \* loop, returned or raised
    q_lines,         \* the lines qstat -u <user> -r printed
    q_pos,           \* lines the generator of line 94 has consumed
    q_i,             \* the index enumerate gives the next line it yields
    q_pending,       \* job_id, job_status and start of the last job-ID line
    q_jobs,          \* the list jobs
    q_exc            \* the exception that ended the call, "none" if none

VARIABLES
    \* ---- several drivers of one owner on one queue ---------------------
    m_k,             \* the number of drivers that run
    m_pc,            \* per driver: admit (line 241), submit (243-248), drain
    m_left,          \* per driver: job directories its for loop has left
    m_entries        \* the owner's entries in the queue

VARIABLES
    \* ---- successive runs of initialise_remote against one host ---------
    b_bmr,           \* ~/BSS-Batch-Manager-Remote: absent, empty_dir, installed
    b_log            \* per run: what it found, what put did, what it raised

kvars == <<job_dir, dir_initial, dir_after_first, clean_runs, clean_exc>>

\* the variables of the specifications of single functions
avars == <<a_pc, run_files, packed_ok, a_zip, a_local, a_extracted>>

lvars == <<l_pc, l_target, l_level, l_dirs, l_initial, l_refuse, l_cwd,
           l_mkdirs>>

svars == <<s_pc, s_ignore_time, s_submitted, s_before, s_qstat, s_snapshot,
           s_outputs, s_finished, s_errored, s_todo, s_cleaned, s_warned,
           s_exc>>

qvars == <<q_pc, q_lines, q_pos, q_i, q_pending, q_jobs, q_exc>>

mvars == <<m_k, m_pc, m_left, m_entries>>

bvars == <<b_bmr, b_log>>

pvars == <<kvars, avars, lvars, svars, qvars, mvars, bvars>>

vars == <<dvars, cvars, pvars>>

(***************************************************************************)
(* Helpers                                                                 *)
(***************************************************************************)
Min(a, b) == IF a < b THEN a ELSE b

Jobs == 1 .. num_jobs

\* a key that leaves the job directory out: one key for the whole batch
SubmittedKey_BatchOnly(job) == 1

\* the key of line 248, f"{batch_desc}_{job_path.name}": the directories of
\* jobs_path have different names, the j-th of them is named by j
SubmittedKey(job) == job

\* submitted_jobs = {} of line 236
EmptyDict == [j \in {} |-> 0]

\* submitted_jobs[k] = time.time()
DictSet(d, k) == [j \in (DOMAIN d) \cup {k} |-> IF j = k THEN 0 ELSE d[j]]

\* del d[k] for every k of ks
DictDel(d, ks) == [j \in (DOMAIN d) \ ks |-> d[j]]

\* the passing of one sleep interval, seen from a stamp compared with limit
Later(t, limit) == Min(t + SLEEP_INTERVAL, limit + SLEEP_INTERVAL)

AdvanceAges(d) == [j \in DOMAIN d |-> Later(d[j], ASSUMPTION_TIME)]

\* qstat | grep "{username}": every entry of the owner
OwnerEntries == Cardinality({j \in Jobs : queue[j] # "none"}) + others

\* an admission test that lets one entry too many through
AdmissionBlocked_OffByOne(n) == n > MAX_PARALLEL_JOBS

\* the admission test of line 241
AdmissionBlocked(n) == n >= MAX_PARALLEL_JOBS


\* for errored_job, id in errored_jobs.values(): the values are the integer
\* queue ids, so unpacking the first of them raises TypeError before the
\* loop body (the log line and qdel) runs; an empty dict runs no iteration
ErroredLoop(errored) == IF errored = {} THEN "none" ELSE "TypeError"

\* message[0].startswith("Unable to run job:") on the lines qsub printed:
\* message[0] of no line at all raises IndexError
CheckMessage(answer) == IF answer = "empty" THEN "IndexError" ELSE "none"

\* the entry line 248 writes after the answer has been looked at
TrackAfterSubmit(d, k, answer) == DictSet(d, k)

\* counter % progress_check == 0 with progress_check = num_jobs // 10, then
\* datetime.strptime(str(elapsed_time), '%H:%M:%S'), which cannot parse
\* "1 day, 0:00:00"
ProgressCheck(c, n, long) ==
    IF n \div PROGRESS_DIVISOR = 0 THEN "ZeroDivisionError"
    ELSE IF c % (n \div PROGRESS_DIVISOR) = 0 /\ long THEN "ValueError"
    ELSE "none"

\* an append that needs the archive to be there already
ZipAppend_NoCreate(z) ==
    IF z.exists THEN [exists |-> TRUE, has_run |-> z.has_run, has_log |-> TRUE]
    ELSE z

\* ZipFile(zip_path, "a").write(log_path): creates the file when it is not
\* there
ZipAppend(z) == [exists |-> TRUE, has_run |-> z.has_run, has_log |-> TRUE]

NoZip == [exists |-> FALSE, has_run |-> FALSE, has_log |-> FALSE]

(***************************************************************************)
(* The remote driver                                                       *)
(***************************************************************************)
DriverInit ==
    /\ d_pc = "start"
    /\ writable \in BOOLEAN
    /\ batch_zip \in {"ok", "missing", "bad"}
    /\ num_jobs \in 1 .. MaxJobs
    /\ next_job = 0
    /\ counter = 0
    /\ submitted_jobs = EmptyDict
    /\ elapsed = 0
    /\ day_passed = FALSE
    /\ sweep_ctx = "none"
    /\ exc = "none"
    /\ exit_code = -1
    /\ return_zip = NoZip
    /\ flag_exists = FALSE
    /\ run_dir = TRUE
    /\ queue = [j \in 1 .. num_jobs |-> "none"]
    /\ others \in 0 .. MaxOthers
    /\ qsub_log = <<>>
    /\ tracked_log = {}
    /\ observed_eqw = {}
    /\ qdel_ids = {}
    /\ engine_failure = FALSE
    /\ drain_exit = "none"
    /\ left_tracked = FALSE
    /\ flag_touches = 0
    /\ emergency_cleaned = FALSE
    /\ qstat_unparsed = FALSE
    /\ idle_iters = 0
    /\ loop_sweeps = 0
    /\ admit_wait = 0
    /\ teardown_log = <<>>
    /\ cleaned = {}

inputs == <<writable, batch_zip, num_jobs>>
teardown_vars == <<return_zip, flag_exists, run_dir, flag_touches, exit_code>>
engine_vars == <<queue, others>>
sweep_hist == <<observed_eqw, qdel_ids>>
submit_hist == <<qsub_log, tracked_log, engine_failure>>
locals == <<next_job, counter, submitted_jobs, elapsed, sweep_ctx>>
run_hist == <<emergency_cleaned, qstat_unparsed>>
loop_hist == <<loop_sweeps, admit_wait>>
clean_hist == <<teardown_log, cleaned>>
more_hist == <<loop_hist, clean_hist>>

\* the driver's position and the local variables of submit_batch after a step
Step(pc, nj, c, sj, el, ctx) ==
    /\ d_pc' = pc
    /\ next_job' = nj
    /\ counter' = c
    /\ submitted_jobs' = sj
    /\ elapsed' = el
    /\ sweep_ctx' = ctx

\* submit_batch ends, by return (e = "none") or by the exception e: its
\* local variables are gone, main's handlers (lines 313-322) log e and call
\* sys.exit(1), and the finally clause of line 323 runs
Leave(e, sj) ==
    /\ Step("archive", 0, 0, EmptyDict, 0, "none")
    /\ exc' = e
    /\ left_tracked' = (DOMAIN sj # {})

\* submit_batch, lines 251-255, with the entries sj in submitted_jobs: the
\* progress log, counter += 1, and the next iteration of the for loop
EndIteration(nj, sj) ==
    IF ProgressCheck(counter, num_jobs, day_passed) # "none"
      THEN Leave(ProgressCheck(counter, num_jobs, day_passed), sj)
      ELSE /\ Step("admit", nj, counter + 1, sj, elapsed, "none")
           /\ UNCHANGED <<exc, left_tracked>>

\* main, lines 295-302
DriverStart ==
    /\ d_pc = "start"
    /\ IF writable
         THEN /\ d_pc' = "unzip"
              /\ exit_code' = exit_code
         ELSE /\ d_pc' = "done"
              /\ exit_code' = 1
    /\ UNCHANGED <<cvars, pvars>>
    /\ UNCHANGED <<run_hist, idle_iters, more_hist>>
    /\ UNCHANGED <<inputs, locals, day_passed, exc, return_zip, flag_exists,
                   run_dir, flag_touches, engine_vars, sweep_hist,
                   submit_hist, drain_exit, left_tracked>>

\* main, lines 304-318, and submit_batch, lines 229-237
Unzip ==
    /\ d_pc = "unzip"
    /\ CASE batch_zip = "missing" -> Leave("StopIteration", EmptyDict)
         [] batch_zip = "bad"     -> Leave("BadZipFile", EmptyDict)
         [] OTHER                 ->
              /\ Step("admit", 0, 0, EmptyDict, 0, "none")
              /\ UNCHANGED <<exc, left_tracked>>
    /\ UNCHANGED <<cvars, pvars>>
    /\ UNCHANGED <<run_hist, idle_iters, more_hist>>
    /\ UNCHANGED <<inputs, day_passed, teardown_vars, engine_vars,
                   sweep_hist, submit_hist, drain_exit>>

\* submit_batch, lines 239-242: one poll of the admission loop, and the
\* sleep when the owner has MAX_PARALLEL_JOBS entries or more
AdmitPoll ==
    /\ d_pc = "admit"
    /\ next_job < num_jobs
    /\ IF AdmissionBlocked(OwnerEntries)
         THEN /\ Step("admit", next_job, counter,
                      AdvanceAges(submitted_jobs), elapsed, sweep_ctx)
              /\ admit_wait' = Later(admit_wait, TIMEOUT)
         ELSE /\ Step("submit", next_job, counter, submitted_jobs,
                      elapsed, sweep_ctx)
              /\ admit_wait' = 0
    /\ UNCHANGED <<cvars, pvars>>
    /\ UNCHANGED <<run_hist, idle_iters, loop_sweeps, clean_hist>>
    /\ UNCHANGED <<inputs, day_passed, exc, teardown_vars, engine_vars,
                   sweep_hist, submit_hist, drain_exit, left_tracked>>

\* submit_batch, lines 243-255: prepare_job, qsub, the entry in
\* submitted_jobs, then either the call of the sweep (counter % 5 is not 0)
\* or the rest of the iteration
SubmitJob ==
    /\ d_pc = "submit"
    /\ \E answer \in {"submitted", "unable", "empty"} :
         LET job == next_job + 1
             tracked == TrackAfterSubmit(submitted_jobs, SubmittedKey(job),
                                         answer)
         IN
         /\ qsub_log' = Append(qsub_log, job)
         /\ engine_failure' = (engine_failure \/ answer # "submitted")
         /\ queue' = IF answer = "submitted"
                       THEN [queue EXCEPT ![job] = "active"]
                       ELSE queue
         /\ IF CheckMessage(answer) # "none"
              THEN /\ Leave(CheckMessage(answer), submitted_jobs)
                   /\ tracked_log' = tracked_log
                   /\ loop_sweeps' = loop_sweeps
              ELSE /\ tracked_log' =
                         tracked_log \cup (DOMAIN tracked \ DOMAIN submitted_jobs)
                   /\ IF counter % cleaning_interval # 0
                        THEN /\ Step("sweep", job, counter, tracked, elapsed,
                                     "loop")
                             /\ loop_sweeps' = loop_sweeps + 1
                             /\ UNCHANGED <<exc, left_tracked>>
                        ELSE /\ EndIteration(job, tracked)
                             /\ loop_sweeps' = loop_sweeps
    /\ UNCHANGED <<cvars, pvars>>
    /\ UNCHANGED <<run_hist, idle_iters, admit_wait, clean_hist>>
    /\ UNCHANGED <<inputs, day_passed, teardown_vars, others, sweep_hist,
                   drain_exit>>

\* a classification without the assumption window
ConfirmedJobs_NoWindow(d, ignore_time) == DOMAIN d

\* clean_finished_jobs, lines 195-198
ConfirmedJobs(d, ignore_time) ==
    IF ignore_time THEN DOMAIN d
    ELSE {j \in DOMAIN d : d[j] > ASSUMPTION_TIME}

\* clean_finished_jobs, line 199: the names import_qstat returns; the
\* owner's entries of other batches carry other names
CurrentJobs == {j \in Jobs : queue[j] # "none"}

\* clean_finished_jobs, line 210: a second snapshot, filtered on Eqw
ErroredJobs == {j \in Jobs : queue[j] = "Eqw"}

\* a difference that forgets the queue
Finished_IgnoreQueue(confirmed, current) == confirmed

\* clean_finished_jobs, line 200: confirmed_jobs - current_jobs
Finished(confirmed, current) == confirmed \ current

\* clean_finished_jobs, lines 195-200, in the driver
FinishedJobs(d, ignore_time) ==
    Finished(ConfirmedJobs(d, ignore_time), CurrentJobs)

\* import_qstat, lines 94-108, on the lines qstat printed: a job-ID line
\* without the columns of lines 100-103 raises IndexError at job_data[5]
\* (or ValueError in strptime), and nothing in import_qstat or in its
\* callers catches it
ImportQstat(lines) == IF lines = "unparsable" THEN "IndexError" ELSE "none"

\* lines 211-213: the entries of errored_jobs for which the loop body, the
\* warning and qdel, has run when the loop ends or raises
QdelIssued(errored) == IF ErroredLoop(errored) = "none" THEN errored ELSE {}

\* clean_finished_jobs, lines 193-217, and the return to the caller: the
\* rest of the for iteration (lines 251-255), counter = 0 and the rest of
\* the drain iteration (lines 265-267), or the emergency clean and the
\* return to main (lines 269-270).  The second call of import_qstat
\* (line 210) is read for its Eqw entries only, which stay in the queue:
\* the sweep sees what it would see had every change of the queue between
\* its two reads come before the first
Sweep ==
    /\ d_pc = "sweep"
    /\ \E lines \in {"parsable", "unparsable"} :
         LET failure == IF ImportQstat(lines) # "none"
                          THEN ImportQstat(lines)
                          ELSE ErroredLoop(ErroredJobs)
             finished_jobs ==
                 FinishedJobs(submitted_jobs, sweep_ctx = "final")
             left == DictDel(submitted_jobs, finished_jobs)
         IN
         /\ qstat_unparsed' = (qstat_unparsed \/ lines = "unparsable")
         /\ engine_failure' = (engine_failure \/ lines = "unparsable")
         /\ observed_eqw' = IF ImportQstat(lines) # "none"
                              THEN observed_eqw
                              ELSE observed_eqw \cup ErroredJobs
         /\ emergency_cleaned' = (failure = "none" /\ sweep_ctx = "final")
         /\ teardown_log' = IF failure = "none" /\ sweep_ctx = "final"
                               THEN Append(teardown_log, "emergency_clean")
                               ELSE teardown_log
         /\ cleaned' = IF ImportQstat(lines) # "none" THEN cleaned
                        ELSE cleaned \cup finished_jobs
         /\ qdel_ids' = IF ImportQstat(lines) # "none" THEN qdel_ids
                         ELSE qdel_ids \cup QdelIssued(ErroredJobs)
         /\ IF failure # "none"
              THEN Leave(failure, submitted_jobs)
              ELSE CASE sweep_ctx = "loop" -> EndIteration(next_job, left)
                     [] sweep_ctx = "drain" ->
                          /\ Step("drain_sleep", next_job, 0, left, elapsed,
                                  "none")
                          /\ UNCHANGED <<exc, left_tracked>>
                     [] OTHER -> Leave("none", left)
    /\ idle_iters' = 0
    /\ UNCHANGED loop_hist
    /\ UNCHANGED <<cvars, pvars>>
    /\ UNCHANGED <<inputs, day_passed, teardown_vars, engine_vars,
                   qsub_log, tracked_log, drain_exit>>

\* submit_batch, lines 239 and 257-258: the for loop is exhausted
LoopExit ==
    /\ d_pc = "admit"
    /\ next_job = num_jobs
    /\ Step("drain", next_job, counter, submitted_jobs, 0, sweep_ctx)
    /\ UNCHANGED <<cvars, pvars>>
    /\ UNCHANGED <<run_hist, idle_iters, more_hist>>
    /\ UNCHANGED <<inputs, day_passed, exc, teardown_vars, engine_vars,
                   sweep_hist, submit_hist, drain_exit, left_tracked>>

\* a timeout branch that cancels what is still tracked
TimeoutQdel_CancelTracked(tracked) == tracked

\* lines 260-262: the jobs the timeout branch cancels; it logs and breaks
TimeoutQdel(tracked) == {}

\* submit_batch, lines 259-264 and 268: the head of one drain iteration
DrainCheck ==
    /\ d_pc = "drain"
    /\ IF DOMAIN submitted_jobs = {}
         THEN /\ Step("sweep", next_job, counter, submitted_jobs, elapsed,
                      "final")
              /\ drain_exit' = "empty"
              /\ teardown_log' = Append(teardown_log, "final_sweep")
              /\ qdel_ids' = qdel_ids
         ELSE IF elapsed > TIMEOUT
         THEN /\ Step("sweep", next_job, counter, submitted_jobs, elapsed,
                      "final")
              /\ drain_exit' = "timeout"
              /\ teardown_log' = Append(teardown_log, "final_sweep")
              /\ qdel_ids' = qdel_ids \cup TimeoutQdel(DOMAIN submitted_jobs)
         ELSE IF counter = cleaning_interval
         THEN /\ Step("sweep", next_job, counter, submitted_jobs, elapsed,
                      "drain")
              /\ UNCHANGED <<drain_exit, teardown_log, qdel_ids>>
         ELSE /\ Step("drain_sleep", next_job, counter, submitted_jobs,
                      elapsed, sweep_ctx)
              /\ UNCHANGED <<drain_exit, teardown_log, qdel_ids>>
    /\ UNCHANGED <<cvars, pvars>>
    /\ UNCHANGED <<run_hist, idle_iters, loop_hist, cleaned>>
    /\ UNCHANGED <<inputs, day_passed, exc, teardown_vars, engine_vars,
                   observed_eqw, submit_hist, left_tracked>>

\* counter += 1 of line 266.  The drain loop reads counter only in
\* counter == cleaning_interval, which no value above cleaning_interval
\* ever satisfies again: above it the model stops counting
NextCounter(c) == IF c > cleaning_interval THEN c ELSE c + 1

\* submit_batch, lines 266-267
DrainSleep ==
    /\ d_pc = "drain_sleep"
    /\ Step("drain", next_job, NextCounter(counter),
            AdvanceAges(submitted_jobs), Later(elapsed, TIMEOUT), sweep_ctx)
    /\ idle_iters' = Min(idle_iters + 1, cleaning_interval)
    /\ UNCHANGED <<cvars, pvars>>
    /\ UNCHANGED <<run_hist, more_hist>>
    /\ UNCHANGED <<inputs, day_passed, exc, teardown_vars, engine_vars,
                   sweep_hist, submit_hist, drain_exit, left_tracked>>

\* main, lines 323-328: shutil.make_archive, whose failure is logged
MakeArchive ==
    /\ d_pc = "archive"
    /\ \E ok \in BOOLEAN :
         return_zip' = IF ok
                         THEN [exists |-> TRUE, has_run |-> TRUE, has_log |-> FALSE]
                         ELSE return_zip
    /\ d_pc' = "log"
    /\ UNCHANGED <<cvars, pvars>>
    /\ teardown_log' = Append(teardown_log, "archive")
    /\ UNCHANGED <<run_hist, idle_iters, loop_hist, cleaned>>
    /\ UNCHANGED <<inputs, locals, day_passed, exc, flag_exists, run_dir,
                   flag_touches, exit_code, engine_vars, sweep_hist,
                   submit_hist, drain_exit, left_tracked>>

\* main, lines 330-332, and write_log_to_zip
WriteLog ==
    /\ d_pc = "log"
    /\ return_zip' = ZipAppend(return_zip)
    /\ d_pc' = "flag"
    /\ UNCHANGED <<cvars, pvars>>
    /\ UNCHANGED <<run_hist, idle_iters, more_hist>>
    /\ UNCHANGED <<inputs, locals, day_passed, exc, flag_exists, run_dir,
                   flag_touches, exit_code, engine_vars, sweep_hist,
                   submit_hist, drain_exit, left_tracked>>

\* main, line 333
TouchFlag ==
    /\ d_pc = "flag"
    /\ flag_exists' = TRUE
    /\ flag_touches' = flag_touches + 1
    /\ d_pc' = "rmtree"
    /\ UNCHANGED <<cvars, pvars>>
    /\ teardown_log' = Append(teardown_log, "flag")
    /\ UNCHANGED <<run_hist, idle_iters, loop_hist, cleaned>>
    /\ UNCHANGED <<inputs, locals, day_passed, exc, return_zip, run_dir,
                   exit_code, engine_vars, sweep_hist, submit_hist,
                   drain_exit, left_tracked>>

\* an archive that lies in the run directory goes with it
Rmtree_WithArchive(z) == NoZip

\* shutil.rmtree(run_path) of line 334, seen from <run>.zip: make_archive
\* (line 326) wrote it next to the run directory, not into it
Rmtree(z) == z

\* main, line 334, and the end of the process: status 1 after sys.exit(1)
\* in a handler, 0 otherwise
RemoveRunDir ==
    /\ d_pc = "rmtree"
    /\ run_dir' = FALSE
    /\ return_zip' = Rmtree(return_zip)
    /\ exit_code' = IF exc = "none" THEN 0 ELSE 1
    /\ d_pc' = "done"
    /\ UNCHANGED <<cvars, pvars>>
    /\ UNCHANGED <<run_hist, idle_iters, more_hist>>
    /\ UNCHANGED <<inputs, locals, day_passed, exc, flag_exists,
                   flag_touches, engine_vars, sweep_hist, submit_hist,
                   drain_exit, left_tracked>>

(***************************************************************************)
(* The grid engine, the other batches of the owner, and the clock, while   *)
(* the driver is in submit_batch                                           *)
(***************************************************************************)
driver_state == <<d_pc, inputs, next_job, counter, sweep_ctx,
                  exc, teardown_vars, sweep_hist, qsub_log, tracked_log,
                  drain_exit, left_tracked, run_hist, idle_iters,
                  more_hist>>

InDrain == d_pc \in {"drain", "drain_sleep"} \/ sweep_ctx = "drain"

InSubmission == d_pc \in {"admit", "submit"} \/ sweep_ctx = "loop"

InSubmitBatch == InSubmission \/ InDrain \/ sweep_ctx = "final"

\* a queued or running job of the batch ends and leaves the queue
JobLeaves ==
    /\ InSubmitBatch
    /\ \E j \in Jobs :
         /\ queue[j] = "active"
         /\ queue' = [queue EXCEPT ![j] = "none"]
    /\ UNCHANGED <<cvars, pvars>>
    /\ UNCHANGED <<driver_state, submitted_jobs, elapsed, day_passed, others,
                   engine_failure>>

\* the engine puts a job of the batch in the error state
JobErrors ==
    /\ InSubmitBatch
    /\ \E j \in Jobs :
         /\ queue[j] = "active"
         /\ queue' = [queue EXCEPT ![j] = "Eqw"]
    /\ engine_failure' = TRUE
    /\ UNCHANGED <<cvars, pvars>>
    /\ UNCHANGED <<driver_state, submitted_jobs, elapsed, day_passed, others>>

\* another batch of the owner adds or loses a queue entry
OthersChange ==
    /\ InSubmitBatch
    /\ \E n \in {others - 1, others + 1} :
         /\ n \in 0 .. MaxOthers
         /\ others' = n
    /\ UNCHANGED <<cvars, pvars>>
    /\ UNCHANGED <<driver_state, submitted_jobs, elapsed, day_passed, queue,
                   engine_failure>>

\* the driver is held up between two steps for longer than ASSUMPTION_TIME
\* (and, in the drain loop, TIMEOUT): every stamp is older than its limit
Pause ==
    /\ InSubmitBatch
    /\ submitted_jobs' =
           [j \in DOMAIN submitted_jobs |-> ASSUMPTION_TIME + SLEEP_INTERVAL]
    /\ elapsed' = IF InDrain THEN TIMEOUT + SLEEP_INTERVAL ELSE elapsed
    /\ <<submitted_jobs', elapsed'>> # <<submitted_jobs, elapsed>>
    /\ UNCHANGED <<cvars, pvars>>
    /\ UNCHANGED <<driver_state, day_passed, engine_vars, engine_failure>>

\* the submission loop has been running for a day
DayPasses ==
    /\ InSubmission
    /\ ~day_passed
    /\ day_passed' = TRUE
    /\ submitted_jobs' =
           [j \in DOMAIN submitted_jobs |-> ASSUMPTION_TIME + SLEEP_INTERVAL]
    /\ UNCHANGED <<cvars, pvars>>
    /\ UNCHANGED <<driver_state, elapsed, engine_vars, engine_failure>>

DriverNext ==
    \/ DriverStart \/ Unzip \/ AdmitPoll \/ SubmitJob \/ Sweep
    \/ LoopExit \/ DrainCheck \/ DrainSleep
    \/ MakeArchive \/ WriteLog \/ TouchFlag \/ RemoveRunDir

EngineNext == JobLeaves \/ JobErrors \/ OthersChange \/ Pause \/ DayPasses

(***************************************************************************)
(* The controller: batch_submit.main, receive_batches, and the driver as   *)
(* the controller sees it on the host                                      *)
(***************************************************************************)
Runs == 1 .. MaxRuns

\* num_runs + 1: the run batch_submit.main submits
ThisRun == MaxRuns

Procs == {"main", "recv"}

\* initialise_remote has not been called
NoBoot == [called |-> FALSE, present |-> FALSE, put |-> "none",
           raised |-> "none"]

\* the earlier runs of the batch have either been received already or lie
\* on the host with their archive and flag; the driver's code tree is on
\* the host, or is not, or an earlier bootstrap left its directory empty
CtlInit ==
    /\ c_pc = "connect"
    /\ c_elapsed = 0
    /\ c_failed = "none"
    /\ c_exit = -1
    /\ successful = TRUE
    /\ r_pc = "idle"
    /\ r_todo = {}
    /\ r_run = 0
    /\ drv = "idle"
    /\ \E earlier \in SUBSET (Runs \ {ThisRun}) :
         /\ remote_zip = [r \in Runs |-> r \in earlier]
         /\ remote_flag = [r \in Runs |-> r \in earlier]
    /\ local_zip = [r \in Runs |-> "absent"]
    /\ extracted = [r \in Runs |-> FALSE]
    /\ ctl_log = [p \in Procs |-> <<>>]
    /\ bmr \in {"absent", "empty_dir", "installed"}
    /\ c_boot = NoBoot
    /\ c_trace = <<>>

main_vars == <<c_pc, c_elapsed, c_failed, c_exit, successful>>
recv_vars == <<r_pc, r_todo, r_run>>
remote_files == <<remote_zip, remote_flag>>
local_files == <<local_zip, extracted>>
boot_vars == <<bmr, c_boot>>

\* the phase main is in has ended, well or not
Traced(ok) == Append(c_trace, <<c_pc, IF ok THEN "ok" ELSE "failed">>)

\* what sftp.put can do in initialise_remote
PutOutcomes == {"ok", "FileNotFoundError", "EACCES", "IOError", "Exception"}

\* initialise_remote, lines 89-98: what the handlers around sftp.put raise.
\* The clause of line 94 raises only when errno is EACCES: any other
\* IOError is caught there and dropped
PutRaises(put) ==
    CASE put = "ok"                -> "none"
      [] put = "FileNotFoundError" -> "InitialiseRemoteError"
      [] put = "EACCES"            -> "InitialiseRemoteError"
      [] put = "IOError"           -> "none"
      [] OTHER                     -> "InitialiseRemoteError"

\* sftp_exists (ssh_utils.py, lines 101-105): sftp.stat succeeds on any
\* path that is there, an empty directory included
SftpExists(b) == b # "absent"

\* initialise_remote, lines 83-106, with the code directory in state b:
\* sftp_exists, land_directory (landed), sftp.put (put) and the remote
\* unzip; rm (unzipped), whose result is not looked at
InitialiseRemote(b, landed, put, unzipped) ==
    IF SftpExists(b)
      THEN [bmr |-> b, raised |-> "none", put |-> "none"]
    ELSE IF ~landed
      THEN [bmr |-> "absent", raised |-> "OSError", put |-> "none"]
    ELSE IF PutRaises(put) # "none"
      THEN [bmr |-> IF put = "FileNotFoundError" THEN "absent"
                    ELSE "empty_dir",
            raised |-> PutRaises(put), put |-> put]
    ELSE [bmr |-> IF put = "ok" /\ unzipped THEN "installed"
                  ELSE "empty_dir",
          raised |-> "none", put |-> put]

\* process p has done e on the files of run r
Logged(p, e, r) == [ctl_log EXCEPT ![p] = Append(@, <<e, r>>)]

\* the status the process ends with: sys.exit(1) of line 127 raises
\* SystemExit, which the clause of line 228 (except Exception) lets through;
\* any exception is caught there, main returns and the interpreter ends
\* with status 0
ExitStatus(how) == IF how = "sys_exit" THEN 1 ELSE 0

\* a handler that logs the error and lets main go on
Reraise_Swallowed(step) == FALSE

\* the inner handlers of main log the error and raise it again
Reraise(step) == TRUE

\* the clause of lines 228-230 and the finally of line 231
Fail(step) ==
    /\ c_pc' = "done"
    /\ c_failed' = step
    /\ c_exit' = ExitStatus("exception")
    /\ successful' = FALSE

\* main after a step that went well or raised
After(step, ok, next) ==
    IF ok \/ ~Reraise(step)
      THEN /\ c_pc' = next
           /\ UNCHANGED <<c_failed, c_exit, successful>>
      ELSE Fail(step)

\* lines 231-235: main has ended and has logged "Batch submit successful!"
LoggedSuccessful == c_pc = "done" /\ successful

\* bash check_file_exists.sh <flag>: the lines it prints, True when the flag
\* is there
CheckFileExists(r) == IF remote_flag[r] THEN <<"True">> ELSE <<"False">>

\* command_lines(ssh, "bash {cfe_path} {flag}") of line 128: without the
\* driver's code tree on the host there is no script and no output
PollLines(r) == IF bmr = "installed" THEN CheckFileExists(r) ELSE <<>>

\* a test that takes any output for the flag
FlagObserved_AnyOutput(result) == result # <<>>

\* wait_for_completion, line 129: result and result[0] == "True"
FlagObserved(result) == result # <<>> /\ result[1] = "True"

\* a timeout that only leaves the poll loop
TimeoutLeads_Break == "download"

\* wait_for_completion, lines 125-127: sys.exit(1) ends main, through the
\* finally clause of line 231
TimeoutLeads == "done"

\* sftp.get(remote, local): the local file is opened for writing, then the
\* remote file is read into it; outcome full needs the remote file
SftpGet(r, outcome) ==
    [local_zip EXCEPT ![r] = IF outcome = "untouched" THEN @ ELSE outcome]

GetOutcomes(r) ==
    {"partial", "untouched"} \cup (IF remote_zip[r] THEN {"full"} ELSE {})

\* main, lines 154-159
Connect ==
    /\ c_pc = "connect"
    /\ \E ok \in BOOLEAN :
         /\ After("connect", ok, "bootstrap")
         /\ c_trace' = Traced(ok)
    /\ UNCHANGED <<dvars, pvars>>
    /\ UNCHANGED boot_vars
    /\ UNCHANGED <<c_elapsed, recv_vars, drv, remote_files, local_files,
                   ctl_log>>

\* main, lines 160-167, and initialise_remote
Bootstrap ==
    /\ c_pc = "bootstrap"
    /\ \E landed \in BOOLEAN, put \in PutOutcomes, unzipped \in BOOLEAN :
         LET res == InitialiseRemote(bmr, landed, put, unzipped)
         IN  /\ bmr' = res.bmr
             /\ c_boot' = [called |-> TRUE, present |-> bmr # "absent",
                           put |-> res.put, raised |-> res.raised]
             /\ After("bootstrap", res.raised = "none", "land")
             /\ c_trace' = Traced(/\ res.raised = "none"
                                  /\ bmr = "absent" => res.bmr = "installed")
    /\ UNCHANGED <<dvars, pvars>>
    /\ UNCHANGED <<c_elapsed, recv_vars, drv, remote_files, local_files,
                   ctl_log>>

\* main, lines 168-172
Land ==
    /\ c_pc = "land"
    /\ \E ok \in BOOLEAN :
         /\ After("land", ok, "upload")
         /\ c_trace' = Traced(ok)
    /\ UNCHANGED <<dvars, pvars>>
    /\ UNCHANGED boot_vars
    /\ UNCHANGED <<c_elapsed, recv_vars, drv, remote_files, local_files,
                   ctl_log>>

\* main, lines 173-179
Upload ==
    /\ c_pc = "upload"
    /\ \E ok \in BOOLEAN :
         /\ After("upload", ok, "launch")
         /\ c_trace' = Traced(ok)
    /\ UNCHANGED <<dvars, pvars>>
    /\ UNCHANGED boot_vars
    /\ UNCHANGED <<c_elapsed, recv_vars, drv, remote_files, local_files,
                   ctl_log>>

\* main, lines 180-194, and wait_for_completion, line 122
Launch ==
    /\ c_pc = "launch"
    /\ \E ok \in BOOLEAN :
         /\ After("launch", ok, "wait")
         /\ drv' = IF ~ok THEN drv
                    ELSE IF bmr = "installed" THEN "running"
                    ELSE "exited"
         /\ c_trace' = Traced(ok)
    /\ c_elapsed' = 0
    /\ UNCHANGED <<dvars, pvars>>
    /\ UNCHANGED boot_vars
    /\ UNCHANGED <<recv_vars, remote_files, local_files, ctl_log>>

\* wait_for_completion, lines 123-132: one iteration of the poll loop
WaitPoll ==
    /\ c_pc = "wait"
    /\ IF c_elapsed > CTL_TIMEOUT
         THEN /\ c_pc' = TimeoutLeads
              /\ c_failed' = "timeout"
              /\ c_exit' = ExitStatus("sys_exit")
              /\ successful' = successful
              /\ c_elapsed' = c_elapsed
              /\ c_trace' = Traced(FALSE)
         ELSE \E ok \in BOOLEAN :
                IF ok /\ ~FlagObserved(PollLines(ThisRun))
                  THEN /\ c_elapsed' =
                              Min(c_elapsed + interval, CTL_TIMEOUT + interval)
                       /\ UNCHANGED <<c_pc, c_failed, c_exit, successful,
                                    c_trace>>
                  ELSE /\ After("poll", ok, "download")
                       /\ c_elapsed' = c_elapsed
                       /\ c_trace' = Traced(ok)
    /\ UNCHANGED <<dvars, pvars>>
    /\ UNCHANGED boot_vars
    /\ UNCHANGED <<recv_vars, drv, remote_files, local_files, ctl_log>>

\* main, lines 199-208
Download ==
    /\ c_pc = "download"
    /\ \E outcome \in GetOutcomes(ThisRun) :
         /\ local_zip' = SftpGet(ThisRun, outcome)
         /\ ctl_log' = Logged("main", IF outcome = "full" THEN "get_ok"
                                      ELSE "get_failed", ThisRun)
         /\ After("download", outcome = "full", "remove_zip")
         /\ c_trace' = Traced(outcome = "full")
    /\ UNCHANGED <<dvars, pvars>>
    /\ UNCHANGED boot_vars
    /\ UNCHANGED <<c_elapsed, recv_vars, drv, remote_files, extracted>>

\* main, line 211
RemoveZip ==
    /\ c_pc = "remove_zip"
    /\ \E ok \in {FALSE, remote_zip[ThisRun]} :
         /\ remote_zip' = IF ok THEN [remote_zip EXCEPT ![ThisRun] = FALSE]
                          ELSE remote_zip
         /\ ctl_log' = IF ok THEN Logged("main", "rm_zip", ThisRun)
                       ELSE ctl_log
         /\ After("cleanup", ok, "remove_flag")
         /\ c_trace' = Traced(ok)
    /\ UNCHANGED <<dvars, pvars>>
    /\ UNCHANGED boot_vars
    /\ UNCHANGED <<c_elapsed, recv_vars, drv, remote_flag, local_files>>

\* main, lines 212-216
RemoveFlag ==
    /\ c_pc = "remove_flag"
    /\ \E ok \in {FALSE, remote_flag[ThisRun]} :
         /\ remote_flag' = IF ok THEN [remote_flag EXCEPT ![ThisRun] = FALSE]
                           ELSE remote_flag
         /\ ctl_log' = IF ok THEN Logged("main", "rm_flag", ThisRun)
                       ELSE ctl_log
         /\ After("cleanup", ok, "extract")
         /\ c_trace' = Traced(ok)
    /\ UNCHANGED <<dvars, pvars>>
    /\ UNCHANGED boot_vars
    /\ UNCHANGED <<c_elapsed, recv_vars, drv, remote_zip, local_files>>

\* main, lines 217-220 and 222-227
Extract ==
    /\ c_pc = "extract"
    /\ \E ok \in {FALSE, local_zip[ThisRun] = "full"} :
         /\ extracted' = IF ok THEN [extracted EXCEPT ![ThisRun] = TRUE]
                         ELSE extracted
         /\ ctl_log' = Logged("main", IF ok THEN "extract_ok"
                                      ELSE "extract_failed", ThisRun)
         /\ After("extract", ok, "unlink")
         /\ c_trace' = Traced(ok)
    /\ UNCHANGED <<dvars, pvars>>
    /\ UNCHANGED boot_vars
    /\ UNCHANGED <<c_elapsed, recv_vars, drv, remote_files, local_zip>>

\* main, line 221 (unlink with missing_ok) and lines 231-235
Unlink ==
    /\ c_pc = "unlink"
    /\ local_zip' = [local_zip EXCEPT ![ThisRun] = "absent"]
    /\ ctl_log' = IF local_zip[ThisRun] # "absent"
                    THEN Logged("main", "unlink", ThisRun)
                    ELSE ctl_log
    /\ c_pc' = "done"
    /\ c_exit' = ExitStatus("return")
    /\ c_trace' = Traced(TRUE)
    /\ UNCHANGED <<dvars, pvars>>
    /\ UNCHANGED boot_vars
    /\ UNCHANGED <<c_elapsed, c_failed, successful, recv_vars, drv,
                   remote_files,
                   extracted>>

\* receive_batches, lines 148-158: log in and list the batch directory
RecvList ==
    /\ r_pc = "idle"
    /\ \E ok \in BOOLEAN :
         IF ok
           THEN /\ r_todo' = {r \in Runs : remote_flag[r]}
                /\ r_pc' = "next"
           ELSE /\ r_todo' = r_todo
                /\ r_pc' = "raised"
    /\ UNCHANGED <<dvars, pvars>>
    /\ UNCHANGED <<boot_vars, c_trace>>
    /\ UNCHANGED <<main_vars, r_run, drv, remote_files, local_files, ctl_log>>

\* receive_batches, lines 162-182 and 193: the next listed flag, if any
RecvPick ==
    /\ r_pc = "next"
    /\ IF r_todo = {}
         THEN /\ r_pc' = "done"
              /\ r_run' = 0
              /\ r_todo' = r_todo
         ELSE \E r \in r_todo :
                /\ r_run' = r
                /\ r_todo' = r_todo \ {r}
                /\ r_pc' = "get"
    /\ UNCHANGED <<dvars, pvars>>
    /\ UNCHANGED <<boot_vars, c_trace>>
    /\ UNCHANGED <<main_vars, drv, remote_files, local_files, ctl_log>>

\* a receive_batches that goes on after a call that raised
RecvAfter_GoOn(ok, next) == r_pc' = next

\* receive_batches after a call that returned or raised: nothing in the
\* function catches the exception
RecvAfter(ok, next) == r_pc' = IF ok THEN next ELSE "raised"

\* receive_batches, line 184
RecvGet ==
    /\ r_pc = "get"
    /\ \E outcome \in GetOutcomes(r_run) :
         /\ local_zip' = SftpGet(r_run, outcome)
         /\ ctl_log' = Logged("recv", IF outcome = "full" THEN "get_ok"
                                      ELSE "get_failed", r_run)
         /\ RecvAfter(outcome = "full", "rm_zip")
    /\ UNCHANGED <<dvars, pvars>>
    /\ UNCHANGED <<boot_vars, c_trace>>
    /\ UNCHANGED <<main_vars, r_todo, r_run, drv, remote_files, extracted>>

\* receive_batches, line 186
RecvRemoveZip ==
    /\ r_pc = "rm_zip"
    /\ \E ok \in {FALSE, remote_zip[r_run]} :
         /\ remote_zip' = IF ok THEN [remote_zip EXCEPT ![r_run] = FALSE]
                          ELSE remote_zip
         /\ ctl_log' = IF ok THEN Logged("recv", "rm_zip", r_run) ELSE ctl_log
         /\ RecvAfter(ok, "rm_flag")
    /\ UNCHANGED <<dvars, pvars>>
    /\ UNCHANGED <<boot_vars, c_trace>>
    /\ UNCHANGED <<main_vars, r_todo, r_run, drv, remote_flag, local_files>>

\* receive_batches, line 187
RecvRemoveFlag ==
    /\ r_pc = "rm_flag"
    /\ \E ok \in {FALSE, remote_flag[r_run]} :
         /\ remote_flag' = IF ok THEN [remote_flag EXCEPT ![r_run] = FALSE]
                           ELSE remote_flag
         /\ ctl_log' = IF ok THEN Logged("recv", "rm_flag", r_run) ELSE ctl_log
         /\ RecvAfter(ok, "unpack")
    /\ UNCHANGED <<dvars, pvars>>
    /\ UNCHANGED <<boot_vars, c_trace>>
    /\ UNCHANGED <<main_vars, r_todo, r_run, drv, remote_zip, local_files>>

\* receive_batches, lines 188-191
RecvUnpack ==
    /\ r_pc = "unpack"
    /\ \E ok \in {FALSE, local_zip[r_run] = "full"} :
         /\ extracted' = IF ok THEN [extracted EXCEPT ![r_run] = TRUE]
                         ELSE extracted
         /\ ctl_log' = Logged("recv", IF ok THEN "extract_ok"
                                      ELSE "extract_failed", r_run)
         /\ RecvAfter(ok, "unlink")
    /\ UNCHANGED <<dvars, pvars>>
    /\ UNCHANGED <<boot_vars, c_trace>>
    /\ UNCHANGED <<main_vars, r_todo, r_run, drv, remote_files, local_zip>>

\* receive_batches, line 192: unlink of a file that is gone raises
RecvUnlink ==
    /\ r_pc = "unlink"
    /\ LET ok == local_zip[r_run] # "absent"
       IN  /\ local_zip' = [local_zip EXCEPT ![r_run] = "absent"]
           /\ ctl_log' = IF ok THEN Logged("recv", "unlink", r_run)
                         ELSE ctl_log
           /\ RecvAfter(ok, "next")
    /\ UNCHANGED <<dvars, pvars>>
    /\ UNCHANGED <<boot_vars, c_trace>>
    /\ UNCHANGED <<main_vars, r_todo, r_run, drv, remote_files, extracted>>

\* the driver on the host, main, lines 300-302: it ends without an archive
\* and without a flag
RemoteDriverRefuses ==
    /\ drv = "running"
    /\ drv' = "exited"
    /\ UNCHANGED <<dvars, pvars>>
    /\ UNCHANGED <<boot_vars, c_trace>>
    /\ UNCHANGED <<main_vars, recv_vars, remote_files, local_files, ctl_log>>

\* the driver on the host, main, lines 323-332: after WriteLog the archive
\* of the run exists
RemoteDriverArchives ==
    /\ drv = "running"
    /\ remote_zip' = [remote_zip EXCEPT ![ThisRun] = ZipAppend(NoZip).exists]
    /\ drv' = "archived"
    /\ UNCHANGED <<dvars, pvars>>
    /\ UNCHANGED <<boot_vars, c_trace>>
    /\ UNCHANGED <<main_vars, recv_vars, remote_flag, local_files, ctl_log>>

\* the driver on the host, main, lines 333-334
RemoteDriverSignals ==
    /\ drv = "archived"
    /\ remote_flag' = [remote_flag EXCEPT ![ThisRun] = TRUE]
    /\ drv' = "exited"
    /\ UNCHANGED <<dvars, pvars>>
    /\ UNCHANGED <<boot_vars, c_trace>>
    /\ UNCHANGED <<main_vars, recv_vars, remote_zip, local_files, ctl_log>>

MainNext ==
    \/ Connect \/ Bootstrap \/ Land \/ Upload \/ Launch \/ WaitPoll
    \/ Download \/ RemoveZip \/ RemoveFlag \/ Extract \/ Unlink

ReceiveNext ==
    \/ RecvList \/ RecvPick \/ RecvGet \/ RecvRemoveZip \/ RecvRemoveFlag
    \/ RecvUnpack \/ RecvUnlink

RemoteDriverNext ==
    RemoteDriverRefuses \/ RemoteDriverArchives \/ RemoteDriverSignals

(***************************************************************************)
(* The specifications.  Each leaves the others' variables where they are:  *)
(* Spec has no controller running, SpecCtl sees the driver only through    *)
(* the files it leaves on the host.                                        *)
(***************************************************************************)
(***************************************************************************)
(* The cleanup of one finished job: the body of the loop of                *)
(* clean_finished_jobs (lines 201-209) and clean_job (lines 163-179),      *)
(* applied to a job directory in any state prepare_job, the job and an     *)
(* earlier cleanup can have left it in.                                    *)
(***************************************************************************)
\* the paths of a job directory that clean_job and the job touch; QsubOut
\* is the file <batch>_<job>.o<id> that qsub -j y -o <job directory> writes
InputFiles == "input_files"
ParamsIn == "input_files/bss_parameters.txt"
ParamsTop == "bss_parameters.txt"
QsubOut == "qsub_output.o"
QsubLog == "qsub.log"
EXEC_NAME == "bond_switch_simulator.exe"
JobScript == "job_submission_script.sh"
OutputFiles == "output_files"
LammpsLog == "output_files/lammps.log"
None == "None"

JobPaths == {InputFiles, ParamsIn, ParamsTop, QsubOut, QsubLog, EXEC_NAME,
             JobScript, OutputFiles, LammpsLog}

\* the directory a path lies in; "." is the job directory itself
Parent(path) ==
    CASE path = ParamsIn -> InputFiles
      [] path = LammpsLog -> OutputFiles
      [] OTHER -> "."

\* the directory states: a path is present only if its directory is
JobDirs == {dir \in SUBSET JobPaths :
               \A path \in dir : Parent(path) = "." \/ Parent(path) \in dir}

Raised(dir, e) == [dir |-> dir, exc |-> e]

\* shutil.move(source, destination) of a file: os.rename replaces the
\* destination; a missing source raises FileNotFoundError
ShutilMove(dir, source, destination) ==
    IF source \in dir
        THEN Raised((dir \ {source}) \cup {destination}, "none")
        ELSE Raised(dir, "FileNotFoundError")

\* lines 135-138: shutil.rmtree of a directory, unlink of anything else
Remove(dir, path) ==
    IF path \in dir
        THEN Raised({f \in dir : f # path /\ Parent(f) # path}, "none")
        ELSE Raised(dir, "FileNotFoundError")

\* the except clauses of lines 139-140 and 146-147
Caught(r) == IF r.exc = "FileNotFoundError" THEN Raised(r.dir, "none") ELSE r

\* safe_move, lines 143-147, as a step of clean_job: skipped once a step
\* before it has raised
safe_move(st, source, destination) ==
    IF st.exc # "none" THEN st
    ELSE Caught(ShutilMove(st.dir, source, destination))

\* safe_remove without its except clause
safe_remove_Unsafe(st, path) ==
    IF st.exc # "none" THEN st ELSE Remove(st.dir, path)

\* safe_remove, lines 133-140
safe_remove(st, path) ==
    IF st.exc # "none" THEN st ELSE Caught(Remove(st.dir, path))

\* clean_job, lines 163-179
clean_job(dir, qsub_output) ==
    LET s0 == Raised(dir, "none")
        s1 == safe_move(s0, ParamsIn, ParamsTop)
        s2 == IF qsub_output # None
                THEN safe_move(s1, qsub_output, QsubLog)
                ELSE s1
        s3 == safe_remove(s2, InputFiles)
        s4 == safe_remove(s3, EXEC_NAME)
        s5 == safe_remove(s4, JobScript)
    IN safe_remove(s5, LammpsLog)

\* lines 203-207: the first file of the job directory that matches
\* <batch>_<job>.o*, None after StopIteration
QsubOutputPath(dir) == IF QsubOut \in dir THEN QsubOut ELSE None

CleanInit ==
    /\ job_dir \in JobDirs
    /\ dir_initial = job_dir
    /\ dir_after_first = {}
    /\ clean_runs = 0
    /\ clean_exc = "none"

\* most cleanups applied to one job
MaxCleans == 2

\* lines 201-209, for one finished job
CleanFinishedJob ==
    /\ clean_runs < MaxCleans
    /\ clean_exc = "none"
    /\ LET r == clean_job(job_dir, QsubOutputPath(job_dir))
       IN /\ job_dir' = r.dir
          /\ clean_exc' = r.exc
          /\ dir_after_first' = IF clean_runs = 0 THEN r.dir
                                ELSE dir_after_first
    /\ clean_runs' = clean_runs + 1
    /\ UNCHANGED dir_initial
    /\ UNCHANGED <<dvars, cvars, avars, lvars, svars, qvars, mvars, bvars>>

CleanOff ==
    /\ job_dir = {}
    /\ dir_initial = {}
    /\ dir_after_first = {}
    /\ clean_runs = 0
    /\ clean_exc = "none"

(***************************************************************************)
(* One result archive: the driver packs the run directory and adds its log *)
(* (main, lines 323-334, write_log_to_zip, lines 273-288); the controller  *)
(* fetches the zip and extracts it (batch_submit.main, lines 199-221).     *)
(***************************************************************************)
\* the files a run directory can hold when it is packed: what the batch
\* zip brought and what the cleaned jobs left
RunPaths == {"initial_network/network.txt",
             "jobs/job_1/bss_parameters.txt",
             "jobs/job_1/qsub.log",
             "jobs/job_1/output_files/bss_stats.csv"}

\* arcname of the driver's log in the zip, line 332
LogArcname == "batch_submission_script.log"

NoArchive == [exists |-> FALSE, names |-> {}]

\* what shutil.make_archive leaves at <run>.zip when it has written the
\* files in written: a complete zip, or after an exception a zip with the
\* files written so far, or no zip at all
MakeArchiveOutcomes(files) ==
    {[exists |-> TRUE, names |-> written] : written \in SUBSET files}
        \cup {NoArchive}

\* ZipFile(zip_path, "w").write(log_path, arcname): starts a new zip
ZipWrite_Truncate(z, arcname) == [exists |-> TRUE, names |-> {arcname}]

\* ZipFile(zip_path, "a").write(log_path, arcname), lines 283-284: adds the
\* entry to the zip, which it creates when it is not there
ZipWrite(z, arcname) == [exists |-> TRUE, names |-> z.names \cup {arcname}]

ArchiveInit ==
    /\ a_pc = "pack"
    /\ run_files \in SUBSET RunPaths
    /\ packed_ok = FALSE
    /\ a_zip = NoArchive
    /\ a_local = {}
    /\ a_extracted = {}

\* driver, lines 324-328: shutil.make_archive(run_path, 'zip', run_path);
\* an exception is logged and dropped
ArchivePack ==
    /\ a_pc = "pack"
    /\ \E z \in MakeArchiveOutcomes(run_files), ok \in BOOLEAN :
         /\ ok => (z.exists /\ z.names = run_files)
         /\ a_zip' = z
         /\ packed_ok' = ok
    /\ a_pc' = "log"
    /\ UNCHANGED <<run_files, a_local, a_extracted>>
    /\ UNCHANGED <<dvars, cvars, kvars, lvars, svars, qvars, mvars, bvars>>

\* driver, line 332
ArchiveLog ==
    /\ a_pc = "log"
    /\ a_zip' = ZipWrite(a_zip, LogArcname)
    /\ a_pc' = "get"
    /\ UNCHANGED <<run_files, packed_ok, a_local, a_extracted>>
    /\ UNCHANGED <<dvars, cvars, kvars, lvars, svars, qvars, mvars, bvars>>

\* controller, lines 199-208: sftp.get(zip_path, save_path)
ArchiveGet ==
    /\ a_pc = "get"
    /\ \E ok \in BOOLEAN :
         IF ok /\ a_zip.exists
             THEN a_local' = a_zip.names /\ a_pc' = "extract"
             ELSE a_local' = a_local /\ a_pc' = "failed"
    /\ UNCHANGED <<run_files, packed_ok, a_zip, a_extracted>>
    /\ UNCHANGED <<dvars, cvars, kvars, lvars, svars, qvars, mvars, bvars>>

\* controller, lines 217-219: extractall into the new run_<n> directory
ArchiveExtract ==
    /\ a_pc = "extract"
    /\ \E ok \in BOOLEAN :
         IF ok
             THEN a_extracted' = a_extracted \cup a_local /\ a_pc' = "done"
             ELSE a_extracted' = a_extracted /\ a_pc' = "failed"
    /\ UNCHANGED <<run_files, packed_ok, a_zip, a_local>>
    /\ UNCHANGED <<dvars, cvars, kvars, lvars, svars, qvars, mvars, bvars>>

ArchiveOff ==
    /\ a_pc = "off"
    /\ run_files = {}
    /\ packed_ok = FALSE
    /\ a_zip = NoArchive
    /\ a_local = {}
    /\ a_extracted = {}

(***************************************************************************)
(* One call of ssh_utils.land_directory (lines 108-136) on an absolute     *)
(* path.  A path is the depth of its last component below "/": 0 is "/",   *)
(* and the prefixes of the path asked for are 0 .. l_target.               *)
(***************************************************************************)
\* deepest path landed
MaxDepth == 4

Root == 0

\* remote_path.parent, line 129: the parent of "/" is "/"
ParentOf(path) == IF path = Root THEN Root ELSE path - 1

\* remote_path == "/" and remote_path == "", lines 121 and 124: a Path
\* never equals a str, so neither test holds
PathEqualsStr(path, str) == FALSE

\* the states of the remote: "/" exists and a directory exists only below
\* an existing one
RemoteDirs == {ds \in SUBSET (Root .. MaxDepth) :
                  Root \in ds /\ \A d \in ds : ParentOf(d) \in ds}

LandInit ==
    /\ l_pc = "call"
    /\ l_target \in Root .. MaxDepth
    /\ l_level = l_target
    /\ l_dirs \in RemoteDirs
    /\ l_initial = l_dirs
    /\ l_refuse \in SUBSET (1 .. MaxDepth)
    /\ l_cwd = -1
    /\ l_mkdirs = <<>>

\* the return of the frame at path to its caller: the frame of the child
\* goes on at line 132, the outermost frame returns to the caller of
\* land_directory
ReturnFrom(path) == IF path = l_target THEN "returned" ELSE "unwind"

\* lines 121-131: the base cases, sftp.chdir(remote_path) and, on OSError,
\* the recursive call on the parent
LandCall ==
    /\ l_pc = "call"
    /\ IF PathEqualsStr(l_level, "/")
         THEN /\ l_cwd' = Root
              /\ l_pc' = ReturnFrom(l_level)
              /\ l_level' = IF l_level = l_target THEN l_level
                            ELSE l_level + 1
         ELSE IF PathEqualsStr(l_level, "")
         THEN /\ l_pc' = ReturnFrom(l_level)
              /\ l_level' = IF l_level = l_target THEN l_level
                            ELSE l_level + 1
              /\ UNCHANGED l_cwd
         ELSE IF l_level \in l_dirs
         THEN /\ l_cwd' = l_level
              /\ l_pc' = ReturnFrom(l_level)
              /\ l_level' = IF l_level = l_target THEN l_level
                            ELSE l_level + 1
         ELSE /\ l_level' = ParentOf(l_level)
              /\ l_pc' = "call"
              /\ UNCHANGED l_cwd
    /\ UNCHANGED <<l_target, l_dirs, l_initial, l_refuse, l_mkdirs>>
    /\ UNCHANGED <<dvars, cvars, kvars, avars, svars, qvars, mvars, bvars>>

\* an except clause at line 135 that drops the error
Reraised_Pass == "returned"

\* lines 135-136: raise OSError(...)
Reraised == "raised"

\* sftp.mkdir(basename), line 133, with the working directory at cwd: the
\* server creates the directory unless it exists, its parent is missing or
\* it refuses
MkdirOk(cwd, path) ==
    /\ cwd \in l_dirs
    /\ cwd + 1 = path
    /\ path \notin l_dirs
    /\ path \notin l_refuse

\* lines 132-136: sftp.mkdir(basename), sftp.chdir(basename), and the raise
\* on OSError
LandMkdir ==
    /\ l_pc = "unwind"
    /\ l_mkdirs' = Append(l_mkdirs, l_level)
    /\ IF MkdirOk(l_cwd, l_level)
         THEN /\ l_dirs' = l_dirs \cup {l_level}
              /\ l_cwd' = l_level
              /\ l_pc' = ReturnFrom(l_level)
              /\ l_level' = IF l_level = l_target THEN l_level
                            ELSE l_level + 1
         ELSE /\ l_pc' = Reraised
              /\ UNCHANGED <<l_dirs, l_cwd, l_level>>
    /\ UNCHANGED <<l_target, l_initial, l_refuse>>
    /\ UNCHANGED <<dvars, cvars, kvars, avars, svars, qvars, mvars, bvars>>

LandOff ==
    /\ l_pc = "off"
    /\ l_target = Root
    /\ l_level = Root
    /\ l_dirs = {Root}
    /\ l_initial = {Root}
    /\ l_refuse = {}
    /\ l_cwd = -1
    /\ l_mkdirs = <<>>

(***************************************************************************)
(* One call of clean_finished_jobs (lines 182-217), statement by           *)
(* statement, on any tracked set, queue and set of queue-output files.     *)
(***************************************************************************)
\* most job names in one call
MaxSweepJobs == 3

\* the names qstat can list for the owner: those of tracked jobs and those
\* of jobs the call does not track
SweepJobs == 1 .. MaxSweepJobs

\* the times since a submission stamp that the test of line 196 tells
\* apart: none, exactly ASSUMPTION_TIME, more
StampAges == {0, ASSUMPTION_TIME, ASSUMPTION_TIME + SLEEP_INTERVAL}

SweepDicts == UNION {[js -> StampAges] : js \in SUBSET SweepJobs}

SweepInit ==
    /\ s_pc = "classify"
    /\ s_ignore_time \in BOOLEAN
    /\ s_submitted \in SweepDicts
    /\ s_before = s_submitted
    /\ s_qstat \in [SweepJobs -> {"none", "active", "Eqw"}]
    /\ s_snapshot = s_qstat
    /\ s_outputs \in SUBSET (DOMAIN s_submitted)
    /\ s_finished = {}
    /\ s_errored = {}
    /\ s_todo = {}
    /\ s_cleaned = {}
    /\ s_warned = {}
    /\ s_exc = "none"

\* the names in a reading of the queue
QueueNames(q) == {j \in DOMAIN q : q[j] # "none"}

\* lines 193-200: confirmed_jobs, the first import_qstat, finished_jobs
SweepClassify ==
    /\ s_pc = "classify"
    /\ \E lines \in {"parsable", "unparsable"} :
         IF ImportQstat(lines) # "none"
           THEN /\ s_pc' = "raised"
                /\ s_exc' = ImportQstat(lines)
                /\ UNCHANGED <<s_snapshot, s_finished, s_todo>>
           ELSE LET finished_jobs ==
                        Finished(ConfirmedJobs(s_submitted, s_ignore_time),
                                 QueueNames(s_qstat))
                IN /\ s_snapshot' = s_qstat
                   /\ s_finished' = finished_jobs
                   /\ s_todo' = finished_jobs
                   /\ s_pc' = "clean"
                   /\ s_exc' = s_exc
    /\ UNCHANGED <<s_ignore_time, s_submitted, s_before, s_qstat, s_outputs,
                   s_errored, s_cleaned, s_warned>>
    /\ UNCHANGED <<dvars, cvars, kvars, avars, lvars, qvars, mvars, bvars>>

\* lines 201-209, one iteration: the search for the queue-output file, the
\* warning when there is none, and clean_job, which moves the file it is
\* given to qsub.log
SweepCleanJob ==
    /\ s_pc = "clean"
    /\ \E job \in s_todo :
         /\ s_warned' = IF job \in s_outputs THEN s_warned
                        ELSE s_warned \cup {job}
         /\ s_outputs' = s_outputs \ {job}
         /\ s_cleaned' = s_cleaned \cup {job}
         /\ s_todo' = s_todo \ {job}
    /\ UNCHANGED <<s_pc, s_ignore_time, s_submitted, s_before, s_qstat,
                   s_snapshot, s_finished, s_errored, s_exc>>
    /\ UNCHANGED <<dvars, cvars, kvars, avars, lvars, qvars, mvars, bvars>>

\* lines 210-213: the second import_qstat, errored_jobs, and the loop over
\* errored_jobs.values()
SweepErrored ==
    /\ s_pc = "clean"
    /\ s_todo = {}
    /\ \E lines \in {"parsable", "unparsable"} :
         LET errored_jobs == {j \in SweepJobs : s_qstat[j] = "Eqw"}
             failure == IF ImportQstat(lines) # "none"
                          THEN ImportQstat(lines)
                          ELSE ErroredLoop(errored_jobs)
         IN /\ s_errored' = IF ImportQstat(lines) # "none" THEN s_errored
                             ELSE errored_jobs
            /\ s_exc' = failure
            /\ s_pc' = IF failure # "none" THEN "raised" ELSE "delete"
    /\ UNCHANGED <<s_ignore_time, s_submitted, s_before, s_qstat, s_snapshot,
                   s_outputs, s_finished, s_todo, s_cleaned, s_warned>>
    /\ UNCHANGED <<dvars, cvars, kvars, avars, lvars, qvars, mvars, bvars>>

\* del d[k] for every k of ks, which raises KeyError on a k that d lacks
DelRaises(d, ks) == IF ks \subseteq DOMAIN d THEN "none" ELSE "KeyError"

\* lines 214-217: the entries of finished_jobs and of errored_jobs are
\* deleted; errored_jobs is empty here, or line 211 had raised
SweepDelete ==
    /\ s_pc = "delete"
    /\ LET after_finished == DictDel(s_submitted, s_finished)
       IN IF DelRaises(s_submitted, s_finished) # "none"
            THEN /\ s_exc' = "KeyError"
                 /\ s_pc' = "raised"
                 /\ s_submitted' = s_submitted
            ELSE IF DelRaises(after_finished, s_errored) # "none"
            THEN /\ s_exc' = "KeyError"
                 /\ s_pc' = "raised"
                 /\ s_submitted' = after_finished
            ELSE /\ s_exc' = s_exc
                 /\ s_pc' = "returned"
                 /\ s_submitted' = DictDel(after_finished, s_errored)
    /\ UNCHANGED <<s_ignore_time, s_before, s_qstat, s_snapshot, s_outputs,
                   s_finished, s_errored, s_todo, s_cleaned, s_warned>>
    /\ UNCHANGED <<dvars, cvars, kvars, avars, lvars, qvars, mvars, bvars>>

\* the grid engine while the call runs: a queued or running job ends, or
\* is put in the error state
SweepQueueMoves ==
    /\ s_pc \in {"clean", "delete"}
    /\ \E j \in SweepJobs, to \in {"none", "Eqw"} :
         /\ s_qstat[j] = "active"
         /\ s_qstat' = [s_qstat EXCEPT ![j] = to]
    /\ UNCHANGED <<s_pc, s_ignore_time, s_submitted, s_before, s_snapshot,
                   s_outputs, s_finished, s_errored, s_todo, s_cleaned,
                   s_warned, s_exc>>
    /\ UNCHANGED <<dvars, cvars, kvars, avars, lvars, qvars, mvars, bvars>>

SweepOff ==
    /\ s_pc = "off"
    /\ s_ignore_time = FALSE
    /\ s_submitted = EmptyDict
    /\ s_before = EmptyDict
    /\ s_qstat = [j \in SweepJobs |-> "none"]
    /\ s_snapshot = [j \in SweepJobs |-> "none"]
    /\ s_outputs = {}
    /\ s_finished = {}
    /\ s_errored = {}
    /\ s_todo = {}
    /\ s_cleaned = {}
    /\ s_warned = {}
    /\ s_exc = "none"

(***************************************************************************)
(* One call of import_qstat (lines 79-109) on the lines that               *)
(* qstat -u <user> -r printed.                                             *)
(***************************************************************************)
\* most lines of one qstat output
MaxLines == 5

\* a line of the output, by what the code reads of it.  A job-ID line has
\* the columns job-ID, prior, name, user, state, date, time; its column 2
\* is the job name cut to the width of the column
QstatLineOf(kind, id, state, start, name) ==
    [kind |-> kind, id |-> id, state |-> state, start |-> start,
     name |-> name]

IdLines == {QstatLineOf("id", id, job[1], job[2], "cut") :
               id \in 1 .. 2, job \in {<<"r", 0>>, <<"Eqw", 5>>}}

NameLines == {QstatLineOf("name", 0, "", 0, name) : name \in {"a", "b"}}

\* the header of the table, a detail line of -r other than the full name,
\* a line that starts with a digit and has one column, an empty line
OtherLines == {QstatLineOf(kind, 0, "", 0, "") :
                  kind \in {"header", "detail", "short", "blank"}}

QstatLines == IdLines \cup NameLines \cup OtherLines

QstatOutputs == UNION {[1 .. n -> QstatLines] : n \in 0 .. MaxLines}

NoJob == [id |-> 0, state |-> "", start |-> 0]

QstatInit ==
    /\ q_pc = "loop"
    /\ q_lines \in QstatOutputs
    /\ q_pos = 0
    /\ q_i = 0
    /\ q_pending = NoJob
    /\ q_jobs = <<>>
    /\ q_exc = "none"

\* a loop that takes every line it is given for a job-ID line
IsIdTurn_Always(i) == TRUE

\* line 97: i % 2 == 0
IsIdTurn(i) == i % 2 = 0

\* a filter that keeps every line
Kept_All(line) == TRUE

\* line 94: line[0].isdigit() or line.strip().startswith("Full jobname")
Kept(line) == line.kind \in {"id", "short", "name"}

\* line 94: line[0] of an empty line
FilterRaises(line) == IF line.kind = "blank" THEN "IndexError" ELSE "none"

\* lines 99-103: int(job_data[0]), job_data[5], job_data[6], job_data[4]
ParseIdLine(line) ==
    CASE line.kind = "id" -> "none"
      [] line.kind = "short" -> "IndexError"
      [] OTHER -> "ValueError"

\* line 106: line.split()[2]
ParseNameLine(line) ==
    IF line.kind \in {"id", "name"} THEN "none" ELSE "IndexError"

\* lines 94-108: the generator yields its next line, or drops the line, and
\* the body of the for loop runs on the line it yielded
QstatNextLine ==
    /\ q_pc = "loop"
    /\ q_pos < Len(q_lines)
    /\ LET line == q_lines[q_pos + 1]
           failure == IF FilterRaises(line) # "none" THEN FilterRaises(line)
                      ELSE IF ~Kept(line) THEN "none"
                      ELSE IF IsIdTurn(q_i) THEN ParseIdLine(line)
                      ELSE ParseNameLine(line)
       IN
       /\ q_pos' = q_pos + 1
       /\ q_exc' = failure
       /\ q_pc' = IF failure # "none" THEN "raised" ELSE "loop"
       /\ q_i' = IF failure = "none" /\ Kept(line) THEN q_i + 1 ELSE q_i
       /\ q_pending' = IF failure = "none" /\ Kept(line) /\ IsIdTurn(q_i)
                         THEN [id |-> line.id, state |-> line.state,
                               start |-> line.start]
                         ELSE q_pending
       /\ q_jobs' = IF failure = "none" /\ Kept(line) /\ ~IsIdTurn(q_i)
                      THEN Append(q_jobs, <<q_pending.id, line.name,
                                            q_pending.state, q_pending.start>>)
                      ELSE q_jobs
    /\ UNCHANGED q_lines
    /\ UNCHANGED <<dvars, cvars, kvars, avars, lvars, svars, mvars, bvars>>

\* line 109
QstatReturn ==
    /\ q_pc = "loop"
    /\ q_pos = Len(q_lines)
    /\ q_pc' = "returned"
    /\ UNCHANGED <<q_lines, q_pos, q_i, q_pending, q_jobs, q_exc>>
    /\ UNCHANGED <<dvars, cvars, kvars, avars, lvars, svars, mvars, bvars>>

QstatOff ==
    /\ q_pc = "off"
    /\ q_lines = <<>>
    /\ q_pos = 0
    /\ q_i = 0
    /\ q_pending = NoJob
    /\ q_jobs = <<>>
    /\ q_exc = "none"

(***************************************************************************)
(* Several drivers of one owner: the admission loop and the submission of  *)
(* submit_batch (lines 239-248) in each of them, against one queue in      *)
(* which nobody else makes entries for the owner.                          *)
(***************************************************************************)
\* most drivers that run at the same time
MaxDrivers == 3
\* most job directories in the batch of one of them
MaxBatch == 3

Drivers == 1 .. m_k

DriversInit ==
    /\ m_k \in 1 .. MaxDrivers
    /\ m_pc = [d \in 1 .. MaxDrivers |-> IF d <= m_k THEN "admit" ELSE "off"]
    /\ m_left \in [1 .. MaxDrivers -> 0 .. MaxBatch]
    /\ \A d \in 1 .. MaxDrivers : d > m_k => m_left[d] = 0
    /\ m_entries = 0

\* lines 239-242 in driver d: the for loop ends, or the driver reads the
\* owner's entries and sleeps or goes on to prepare_job
DriverPolls ==
    /\ \E d \in Drivers :
         /\ m_pc[d] = "admit"
         /\ m_pc' = [m_pc EXCEPT ![d] =
                        IF m_left[d] = 0 THEN "drain"
                        ELSE IF AdmissionBlocked(m_entries) THEN "admit"
                        ELSE "submit"]
    /\ UNCHANGED <<m_k, m_left, m_entries>>
    /\ UNCHANGED <<dvars, cvars, kvars, avars, lvars, svars, qvars, bvars>>

\* lines 243-248 in driver d: qsub makes an entry, or refuses the job
DriverSubmits ==
    /\ \E d \in Drivers, answer \in {"submitted", "unable"} :
         /\ m_pc[d] = "submit"
         /\ m_entries' = IF answer = "submitted" THEN m_entries + 1
                         ELSE m_entries
         /\ m_left' = [m_left EXCEPT ![d] = @ - 1]
         /\ m_pc' = [m_pc EXCEPT ![d] = "admit"]
    /\ UNCHANGED m_k
    /\ UNCHANGED <<dvars, cvars, kvars, avars, lvars, svars, qvars, bvars>>

\* a job of the owner ends, or is cancelled, and leaves the queue
OwnerJobLeaves ==
    /\ m_entries > 0
    /\ m_entries' = m_entries - 1
    /\ UNCHANGED <<m_k, m_pc, m_left>>
    /\ UNCHANGED <<dvars, cvars, kvars, avars, lvars, svars, qvars, bvars>>

DriversOff ==
    /\ m_k = 0
    /\ m_pc = [d \in 1 .. MaxDrivers |-> "off"]
    /\ m_left = [d \in 1 .. MaxDrivers |-> 0]
    /\ m_entries = 0

(***************************************************************************)
(* Successive orchestrator runs against one host: initialise_remote        *)
(* (batch_submit.py, lines 83-106) on the code directory the run before    *)
(* left.                                                                   *)
(***************************************************************************)
\* most orchestrator runs against the host
MaxBoots == 4

\* before the first run the host has no code directory, or has the driver
BootInit ==
    /\ b_bmr \in {"absent", "installed"}
    /\ b_log = <<>>

\* one run of initialise_remote
BootRun ==
    /\ Len(b_log) < MaxBoots
    /\ \E landed \in BOOLEAN, put \in PutOutcomes, unzipped \in BOOLEAN :
         LET res == InitialiseRemote(b_bmr, landed, put, unzipped)
         IN  /\ b_bmr' = res.bmr
             /\ b_log' = Append(b_log, [before |-> b_bmr,
                                        present |-> SftpExists(b_bmr),
                                        put |-> res.put,
                                        raised |-> res.raised])
    /\ UNCHANGED <<dvars, cvars, kvars, avars, lvars, svars, qvars, mvars>>

BootOff ==
    /\ b_bmr = "installed"
    /\ b_log = <<>>

CtlOff ==
    /\ c_pc = "off"
    /\ c_elapsed = 0
    /\ c_failed = "none"
    /\ c_exit = -1
    /\ successful = TRUE
    /\ r_pc = "off"
    /\ r_todo = {}
    /\ r_run = 0
    /\ drv = "idle"
    /\ remote_zip = [r \in Runs |-> FALSE]
    /\ remote_flag = [r \in Runs |-> FALSE]
    /\ local_zip = [r \in Runs |-> "absent"]
    /\ extracted = [r \in Runs |-> FALSE]
    /\ ctl_log = [p \in Procs |-> <<>>]
    /\ bmr = "installed"
    /\ c_boot = NoBoot
    /\ c_trace = <<>>

DriverOff ==
    /\ d_pc = "off"
    /\ writable = TRUE
    /\ batch_zip = "ok"
    /\ num_jobs = 1
    /\ next_job = 0
    /\ counter = 0
    /\ submitted_jobs = EmptyDict
    /\ elapsed = 0
    /\ day_passed = FALSE
    /\ sweep_ctx = "none"
    /\ exc = "none"
    /\ exit_code = -1
    /\ return_zip = NoZip
    /\ flag_exists = FALSE
    /\ run_dir = TRUE
    /\ queue = [j \in 1 .. 1 |-> "none"]
    /\ others = 0
    /\ qsub_log = <<>>
    /\ tracked_log = {}
    /\ observed_eqw = {}
    /\ qdel_ids = {}
    /\ engine_failure = FALSE
    /\ drain_exit = "none"
    /\ left_tracked = FALSE
    /\ flag_touches = 0
    /\ emergency_cleaned = FALSE
    /\ qstat_unparsed = FALSE
    /\ idle_iters = 0
    /\ loop_sweeps = 0
    /\ admit_wait = 0
    /\ teardown_log = <<>>
    /\ cleaned = {}

Init ==
    DriverInit /\ CtlOff /\ CleanOff /\ ArchiveOff
        /\ LandOff /\ SweepOff /\ QstatOff /\ DriversOff /\ BootOff

Next == DriverNext \/ EngineNext

Spec == Init /\ [][Next]_vars

InitCtl ==
    CtlInit /\ DriverOff /\ CleanOff /\ ArchiveOff
        /\ LandOff /\ SweepOff /\ QstatOff /\ DriversOff /\ BootOff

NextCtl == MainNext \/ ReceiveNext \/ RemoteDriverNext

SpecCtl == InitCtl /\ [][NextCtl]_vars

InitClean ==
    CleanInit /\ DriverOff /\ CtlOff /\ ArchiveOff
        /\ LandOff /\ SweepOff /\ QstatOff /\ DriversOff /\ BootOff

NextClean == CleanFinishedJob

SpecClean == InitClean /\ [][NextClean]_vars

InitArchive ==
    ArchiveInit /\ DriverOff /\ CtlOff /\ CleanOff
        /\ LandOff /\ SweepOff /\ QstatOff /\ DriversOff /\ BootOff

NextArchive == ArchivePack \/ ArchiveLog \/ ArchiveGet \/ ArchiveExtract

SpecArchive == InitArchive /\ [][NextArchive]_vars

InitLand ==
    LandInit /\ DriverOff /\ CtlOff /\ CleanOff
        /\ ArchiveOff /\ SweepOff /\ QstatOff /\ DriversOff /\ BootOff

NextLand == LandCall \/ LandMkdir

\* the call runs on the controller's only thread: a step that can be taken
\* is taken
SpecLand == InitLand /\ [][NextLand]_vars /\ WF_vars(NextLand)

InitSweep ==
    SweepInit /\ DriverOff /\ CtlOff /\ CleanOff /\ ArchiveOff
        /\ LandOff /\ QstatOff /\ DriversOff /\ BootOff

NextSweep ==
    \/ SweepClassify \/ SweepCleanJob \/ SweepErrored \/ SweepDelete
    \/ SweepQueueMoves

SpecSweep == InitSweep /\ [][NextSweep]_vars

InitDrivers ==
    DriversInit /\ DriverOff /\ CtlOff /\ CleanOff /\ ArchiveOff
        /\ LandOff /\ SweepOff /\ QstatOff /\ BootOff

NextDrivers == DriverPolls \/ DriverSubmits \/ OwnerJobLeaves

SpecDrivers == InitDrivers /\ [][NextDrivers]_vars

InitBoot ==
    BootInit /\ DriverOff /\ CtlOff /\ CleanOff /\ ArchiveOff
        /\ LandOff /\ SweepOff /\ QstatOff /\ DriversOff

NextBoot == BootRun

SpecBoot == InitBoot /\ [][NextBoot]_vars

InitQstat ==
    QstatInit /\ DriverOff /\ CtlOff /\ CleanOff /\ ArchiveOff
        /\ LandOff /\ SweepOff /\ DriversOff /\ BootOff

NextQstat == QstatNextLine \/ QstatReturn

SpecQstat == InitQstat /\ [][NextQstat]_vars

(***************************************************************************)
(* Properties of the remote driver (specification Spec)                    *)
(***************************************************************************)
\* this batch's jobs present in the queue
OwnInQueue == Cardinality(CurrentJobs)

\* the driver has left submit_batch and is in, or past, main's finally clause
InTeardown == d_pc \in {"archive", "log", "flag", "rmtree"}
              \/ (d_pc = "done" /\ writable)

\* the batch archive was unpacked, so submit_batch ran
BatchRan == writable /\ batch_zip = "ok"

\* C1 (admission invariant): the number of this batch's jobs in the queue
\* never exceeds MAX_PARALLEL_JOBS by more than the one submission in
\* flight, because a submission is in flight (the poll of line 241 has let
\* it through, qsub has not run yet) only while fewer than
\* MAX_PARALLEL_JOBS of the batch's jobs are queued.
C1_AdmissionInvariant ==
    /\ OwnInQueue <= MAX_PARALLEL_JOBS + 1
    /\ d_pc = "submit" => OwnInQueue < MAX_PARALLEL_JOBS

\* C1 witness: the cap is reached after more submissions than the cap, with
\* a further job waiting at the admission poll.
C1_Witness ==
    /\ OwnInQueue = MAX_PARALLEL_JOBS
    /\ Len(qsub_log) > MAX_PARALLEL_JOBS
    /\ d_pc = "admit"
    /\ next_job < num_jobs

\* C2 (completion convergence), the claim as stated: when no submission was
\* rejected and no job entered the error state, the driver does not leave
\* submit_batch unless its drain loop has seen submitted_jobs empty (it
\* leaves neither before the drain loop nor through the drain timeout).
C2_CompletionConvergence ==
    (InTeardown /\ BatchRan /\ ~engine_failure) => drain_exit = "empty"

\* C3 (every job submitted once, in order), the claim as stated, for the
\* runs in which the engine rejects nothing and puts no job in Eqw: when
\* submit_batch is over, qsub has been given the job directories 1 .. N,
\* each once, in enumeration order.
C3_AllSubmittedInOrder ==
    (InTeardown /\ BatchRan /\ ~engine_failure)
        => qsub_log = [i \in 1 .. num_jobs |-> i]

\* C4 (error isolation), the claim as stated: once a sweep has seen jobs of
\* the batch in state Eqw, qdel has been issued for each of them, none of
\* them is tracked any more, and submit_batch has not been ended by an
\* exception.
C4_ErrorIsolation ==
    observed_eqw # {} =>
        /\ observed_eqw \subseteq qdel_ids
        /\ observed_eqw \cap DOMAIN submitted_jobs = {}
        /\ exc = "none"

\* the step in which qsub answers "Unable to run job:": qsub has run, no
\* queue entry has appeared and message[0] could be read
RejectedStep ==
    /\ d_pc = "submit"
    /\ Len(qsub_log') = Len(qsub_log) + 1
    /\ queue' = queue
    /\ exc' # "IndexError"

\* C5 (a rejected submission creates no tracking entry), the claim as
\* stated: the step in which qsub rejects a job makes no submitted_jobs
\* entry.
C5_RejectedNotTracked ==
    [][RejectedStep => tracked_log' = tracked_log]_vars

\* C6 (at-most-once tracking): submitted_jobs never holds two live entries
\* for one queue name.  It is a dict, so a second entry for a name could
\* only take the place of the first: no step writes the entry of a name
\* that has a live entry (a live entry's submission stamp is never taken
\* anew, the time since it only grows).
C6_AtMostOnceTracking ==
    [][\A j \in DOMAIN submitted_jobs \cap DOMAIN submitted_jobs' :
           submitted_jobs'[j] >= submitted_jobs[j]]_vars

\* C6 witness: a job has just been tracked next to the live, older entries
\* of two jobs submitted before it.
C6_Witness ==
    /\ Cardinality(DOMAIN submitted_jobs) >= 3
    /\ next_job \in DOMAIN submitted_jobs
    /\ submitted_jobs[next_job] = 0
    /\ \A j \in DOMAIN submitted_jobs \ {next_job} : submitted_jobs[j] > 0

C8_AllTerminalAtSignal ==
    (flag_exists /\ BatchRan)
        => (Len(qsub_log) = num_jobs /\ ~left_tracked)

\* C14 (the drain timeout is soft), the claim as stated: a driver that left
\* the drain loop by the timeout has, when it ends, run the final sweep to
\* its end and the emergency clean, and has left an archive and the flag.
C14_DrainTimeoutSoft ==
    (drain_exit = "timeout" /\ d_pc = "done") =>
        /\ emergency_cleaned
        /\ return_zip.exists
        /\ flag_exists


\* C19 (queue-status parse failures are tolerated), the claim as stated: the
\* step in which a sweep meets qstat output that cannot be parsed raises
\* nothing and leaves the driver in submit_batch.
C19_ParseFailureTolerated ==
    [][(qstat_unparsed' /\ ~qstat_unparsed) =>
          (exc' = "none" /\ ~InTeardown')]_vars

\* C20 (drain-loop sweep cadence), the claim as stated: while tracked jobs
\* remain in the drain loop, fewer than cleaning_interval iterations in a
\* row have gone by without a sweep, as long as the timeout has not elapsed.
C20_DrainSweepCadence ==
    (InDrain /\ DOMAIN submitted_jobs # {} /\ elapsed <= TIMEOUT) =>
        idle_iters < cleaning_interval


\* C21 (submission-phase sweep cadence), the claim as stated: after k
\* submissions the submission loop has called the sweep at most
\* ceil(k / cleaning_interval) times.
C21_SubmissionSweepCadence ==
    loop_sweeps <=
        (Len(qsub_log) + cleaning_interval - 1) \div cleaning_interval

\* C22 (every wait in the driver is bounded), the claim as stated: the
\* admission loop never holds a job back for longer than the top-level
\* TIMEOUT.
C22_AdmissionWaitBounded ==
    d_pc = "admit" => admit_wait <= TIMEOUT

\* C23 (admission liveness), the claim as stated, for the runs in which the
\* engine rejects nothing and puts no job in Eqw: a driver that has ended
\* has submitted every job directory of its batch.
C23_AllEventuallySubmitted ==
    (d_pc = "done" /\ BatchRan /\ ~engine_failure)
        => Len(qsub_log) = num_jobs

\* C26 (teardown order after the drain loop), the claim as stated: a driver
\* that left the drain loop, by the empty tracked set or by the timeout,
\* and has ended has run the final sweep, the emergency clean, the
\* archiving and the writing of the flag, once each and in that order.
C26_TeardownOrder ==
    (drain_exit # "none" /\ d_pc = "done") =>
        teardown_log = <<"final_sweep", "emergency_clean", "archive", "flag">>

\* the jobs whose directory holds the executable and the submission script
\* that prepare_job put there: prepared, cleaned by no sweep, and no
\* emergency clean since
ScratchJobs ==
    IF emergency_cleaned THEN {}
    ELSE {qsub_log[i] : i \in DOMAIN qsub_log} \ cleaned

\* C29 (no large scratch artifact in the result archive), the claim as
\* stated: when the run directory has been archived, no job directory
\* holds the executable or a submission script.
C29_NoScratchInArchive ==
    return_zip.has_run => ScratchJobs = {}

\* C30 (qdel only for entries seen in the error state): every job qdel was
\* issued for had been seen in state Eqw by a sweep; neither the drain
\* timeout nor any other path cancels a job.
C30_QdelOnlyErrored ==
    qdel_ids \subseteq observed_eqw

\* the driver has ended after a drain timeout with a job of the batch
\* still queued or running, and has cancelled nothing
C30_Witness ==
    /\ d_pc = "done"
    /\ drain_exit = "timeout"
    /\ \E j \in Jobs : queue[j] = "active"
    /\ qdel_ids = {}

\* C32 (the signal on every exit), the claim as stated: a driver that has
\* ended, on whatever path, has written the completion flag.
C32_SignalOnEveryExit ==
    d_pc = "done" => flag_exists

\* C33 (no deletion under a queued job), the claim as stated: no step
\* cleans the directory of a job that is in the queue, runs the emergency
\* clean over the job directories, or removes the run directory, while a
\* job of the batch is in the queue.
C33_NoDeletionWhileQueued ==
    [][/\ (cleaned' \ cleaned) \cap CurrentJobs = {}
       /\ (emergency_cleaned' /\ ~emergency_cleaned) => CurrentJobs = {}
       /\ (run_dir /\ ~run_dir') => CurrentJobs = {}]_vars

Precedes(log, first, later) ==
    \A i \in DOMAIN log :
        log[i][1] \in later =>
            \E j \in 1 .. i - 1 : log[j] = <<first, log[i][2]>>

\* in log, no event of kinds later about a run comes after the event
\* failed about the same run
NeverAfter(log, failed, later) ==
    \A i \in DOMAIN log :
        log[i][1] = failed =>
            \A j \in i + 1 .. Len(log) :
                ~(log[j][1] \in later /\ log[j][2] = log[i][2])

\* C9 (retrieval ordering): in batch_submit.main and in receive_batches
\* alike, the process deletes the remote archive and the remote flag of a
\* run only after its download of that archive has succeeded, and deletes
\* the local archive only after its extraction has succeeded; after a
\* failed download it deletes neither remote file, and after a failed
\* extraction it does not delete the local archive.
C9_RetrievalOrdering ==
    \A p \in Procs :
        /\ Precedes(ctl_log[p], "get_ok", {"rm_zip", "rm_flag"})
        /\ Precedes(ctl_log[p], "extract_ok", {"unlink"})
        /\ NeverAfter(ctl_log[p], "get_failed", {"rm_zip", "rm_flag"})
        /\ NeverAfter(ctl_log[p], "extract_failed", {"unlink"})

\* C9 witness: main has downloaded, cleaned up, extracted and unlinked the
\* run it submitted, receive_batches has done the same for an earlier run,
\* and has then failed to download the archive of the run main received.
C9_Witness ==
    /\ ctl_log["main"] = <<<<"get_ok", ThisRun>>, <<"rm_zip", ThisRun>>,
                           <<"rm_flag", ThisRun>>, <<"extract_ok", ThisRun>>,
                           <<"unlink", ThisRun>>>>
    /\ \E r \in Runs \ {ThisRun} :
         ctl_log["recv"] = <<<<"get_ok", r>>, <<"rm_zip", r>>,
                             <<"rm_flag", r>>, <<"extract_ok", r>>,
                             <<"unlink", r>>, <<"get_failed", ThisRun>>>>
    /\ r_pc = "raised"

\* C10 (non-zero exit on any fatal step), the claim as stated: when
\* batch_submit.main has ended because one of its steps failed, its exit
\* status is not 0.
C10_FatalStepExitsNonZero ==
    (c_pc = "done" /\ c_failed # "none") => c_exit # 0

\* the phases of batch_submit.main, lines 154-227, in the order of the text
PhaseOrder == <<"connect", "bootstrap", "land", "upload", "launch", "wait",
                "download", "remove_zip", "remove_flag", "extract", "unlink">>

\* C11 (phase order, abort on failure), the claim as stated: the phases main
\* has gone through are the first phases of PhaseOrder, in that order, a
\* phase that failed is the last one main has gone through, and the driver
\* has been launched only after connect, bootstrap, landing and upload have
\* each succeeded.
C11_PhasesAbortOnFailure ==
    /\ Len(c_trace) <= Len(PhaseOrder)
    /\ \A i \in DOMAIN c_trace :
         /\ c_trace[i][1] = PhaseOrder[i]
         /\ c_trace[i][2] = "failed" => i = Len(c_trace)
    /\ drv # "idle" =>
         \A i \in 1 .. 4 : c_trace[i] = <<PhaseOrder[i], "ok">>

\* C12 (completion polling): wait_for_completion hands over to the download
\* only in a poll that finds the flag on the host; a poll that does not
\* find it is followed by a sleep of one interval; once the elapsed time is
\* above the timeout the next step ends main, and a main ended by the
\* timeout has exit status 1 and has retrieved nothing.
C12_CompletionPolling ==
    /\ [][/\ (c_pc = "wait" /\ c_pc' = "download") => remote_flag[ThisRun]
          /\ (c_pc = "wait" /\ c_pc' = "wait" /\ c_elapsed' # c_elapsed)
                => c_elapsed' = c_elapsed + interval
          /\ (c_pc = "wait" /\ c_elapsed > CTL_TIMEOUT /\ c_pc' # c_pc)
                => (c_pc' = "done" /\ c_failed' = "timeout")]_vars
    /\ [](c_failed = "timeout" =>
            /\ c_exit = 1
            /\ c_elapsed > CTL_TIMEOUT
            /\ ctl_log["main"] = <<>>)

\* C12 witness: the driver is still at work and has written no flag when
\* the controller gives up.
C12_Witness ==
    /\ c_failed = "timeout"
    /\ c_exit = 1
    /\ drv = "running"
    /\ ~remote_flag[ThisRun]

\* C13 (the timeout leaves the remote state untouched): in the step in
\* which the timeout fires, and in every later step of main, nothing on the
\* host changes (the archives, the flags, the driver's code tree, the
\* driver itself) and main transfers and deletes nothing.
C13_TimeoutLeavesRemote ==
    [][c_failed' = "timeout" =>
         /\ ctl_log'["main"] = ctl_log["main"]
         /\ (c_pc' # c_pc \/ c_trace' # c_trace) =>
               /\ remote_zip' = remote_zip
               /\ remote_flag' = remote_flag
               /\ bmr' = bmr
               /\ drv' = drv]_vars

\* C13 witness: the timeout has fired with the archive and the flag of the
\* run on the host, and both are still there.
C13_Witness ==
    /\ c_failed = "timeout"
    /\ c_pc = "done"
    /\ remote_zip[ThisRun]
    /\ remote_flag[ThisRun]

\* C17 (remote bootstrap), the claim as stated: when the code directory was
\* there, initialise_remote transferred nothing and raised nothing; when it
\* was not there and the call returned normally, the code tree is installed;
\* and every failure of the transfer was raised as InitialiseRemoteError.
C17_BootstrapContract ==
    c_boot.called =>
        /\ c_boot.present => (c_boot.put = "none" /\ c_boot.raised = "none")
        /\ (~c_boot.present /\ c_boot.raised = "none") => bmr = "installed"
        /\ c_boot.put \in PutOutcomes \ {"ok"}
              => c_boot.raised = "InitialiseRemoteError"

\* process p has transferred, deleted or extracted files of run r
Touched(p, r) == \E i \in DOMAIN ctl_log[p] : ctl_log[p][i][2] = r

\* the driver of run r has written its flag: the flag is there, or a
\* controller has deleted it
Signalled(r) ==
    remote_flag[r] \/ \E p \in Procs : \E i \in DOMAIN ctl_log[p] :
                          ctl_log[p][i] = <<"rm_flag", r>>

\* an intact copy of the results of run r: the remote archive, the whole
\* local archive, or the extracted run directory
CopyExists(r) == remote_zip[r] \/ local_zip[r] = "full" \/ extracted[r]

C37_ConcurrentRetrieval ==
    /\ ~(\E i \in DOMAIN ctl_log["main"], j \in DOMAIN ctl_log["recv"] :
            /\ ctl_log["main"][i] = <<"get_ok", ThisRun>>
            /\ ctl_log["recv"][j] = <<"get_ok", ThisRun>>)
    /\ c_failed = "timeout" =>
          ~(\E j \in DOMAIN ctl_log["recv"] :
               ctl_log["recv"][j] = <<"rm_flag", ThisRun>>)

\* every phase of main has run and has done its work
AllPhasesCompleted ==
    /\ c_failed = "none"
    /\ Len(c_trace) = Len(PhaseOrder)
    /\ \A i \in DOMAIN c_trace : c_trace[i][2] = "ok"

\* C39 (the success line), the claim as stated: when main has ended it has
\* logged "Batch submit successful!" if and only if every phase through
\* the extraction and the deletion of the local archive completed; not
\* after the timeout of the completion poll, and not after a phase raised.
C39_SuccessLoggedIffCompleted ==
    c_pc = "done" => (LoggedSuccessful <=> AllPhasesCompleted)

(***************************************************************************)
(* Properties of the cleanup of a job (specification SpecClean)            *)
(***************************************************************************)
\* C15 (idempotent cleanup): no cleanup of a job directory raises, and the
\* second cleanup of a job leaves the directory as the first one left it.
C15_IdempotentCleanup ==
    /\ clean_exc = "none"
    /\ clean_runs = MaxCleans => job_dir = dir_after_first

\* a job directory with everything clean_job works on has been cleaned
\* twice
C15_Witness ==
    /\ clean_runs = MaxCleans
    /\ {ParamsIn, QsubOut, EXEC_NAME, JobScript, LammpsLog} \subseteq dir_initial
    /\ job_dir = {ParamsTop, QsubLog, OutputFiles}

RECURSIVE Missing(_)
Missing(path) ==
    IF path \in l_initial THEN <<>>
    ELSE Append(Missing(ParentOf(path)), path)

\* C18 (land_directory is idempotent and creates all ancestors): after a
\* normal return the path and all its ancestors exist and the client is in
\* the path; a path that exists is entered without any mkdir; the missing
\* prefixes are created once each, top-down, and nothing else is; when the
\* server refuses one of them the call raises; and the call terminates.
C18_LandDirectory ==
    /\ [](l_pc = "returned" =>
            /\ Root .. l_target \subseteq l_dirs
            /\ l_cwd = l_target
            /\ l_mkdirs = Missing(l_target))
    /\ [](l_target \in l_initial => l_mkdirs = <<>>)
    /\ [](\A i \in DOMAIN l_mkdirs : l_mkdirs[i] = Missing(l_target)[i])
    /\ []((\E d \in 1 .. l_target : d \notin l_initial /\ d \in l_refuse)
             => l_pc # "returned")
    /\ [](l_pc = "raised" => l_mkdirs[Len(l_mkdirs)] \in l_refuse)
    /\ <>(l_pc \in {"returned", "raised"})

\* a path with two missing ancestors has been landed
C18_Witness ==
    /\ l_pc = "returned"
    /\ Len(l_mkdirs) >= 3
    /\ l_target \notin l_initial

(***************************************************************************)
(* Properties of one call of clean_finished_jobs (specification SpecSweep) *)
(***************************************************************************)
\* the call has read the queue and classified
SweepClassified == s_pc \in {"clean", "delete", "returned"}
                   \/ (s_pc = "raised" /\ s_exc # "IndexError")

\* the call is over
SweepOver == s_pc \in {"returned", "raised"}

\* C24 (assumption window): in a call with ignore_time = False every job
\* classified finished, and every job cleaned, had been tracked for at
\* least ASSUMPTION_TIME; a job tracked for less is still tracked when the
\* call returns, also when it is not in the queue.
C24_AssumptionWindow ==
    ~s_ignore_time =>
        /\ \A j \in s_finished \cup s_cleaned :
               j \in DOMAIN s_before /\ s_before[j] >= ASSUMPTION_TIME
        /\ s_pc = "returned" =>
               \A j \in DOMAIN s_before :
                   s_before[j] < ASSUMPTION_TIME =>
                       /\ j \in DOMAIN s_submitted
                       /\ j \notin s_cleaned

\* a call with the window enabled has returned: it cleaned a job and kept
\* a job submitted just before that is not in the queue
C24_Witness ==
    /\ s_pc = "returned"
    /\ ~s_ignore_time
    /\ s_cleaned # {}
    /\ \E j \in DOMAIN s_submitted :
           s_before[j] < ASSUMPTION_TIME /\ s_snapshot[j] = "none"

\* the tracked jobs the sweep may look at: all of them in the final sweep,
\* those older than the window otherwise
Eligible == {j \in DOMAIN s_before :
                s_ignore_time \/ s_before[j] > ASSUMPTION_TIME}

\* C25 (finished = eligible tracked jobs absent from the snapshot): once
\* the call has classified, finished_jobs is the set of eligible tracked
\* jobs whose name is not in the snapshot of line 199, and no job whose
\* name is in that snapshot is cleaned.
C25_FinishedAbsentFromSnapshot ==
    SweepClassified =>
        /\ s_finished = {j \in Eligible : s_snapshot[j] = "none"}
        /\ s_cleaned \subseteq s_finished
        /\ \A j \in s_cleaned : s_snapshot[j] = "none"

\* a call has returned that cleaned a job and left alone an eligible job
\* that was in the queue
C25_Witness ==
    /\ s_pc = "returned"
    /\ s_cleaned # {}
    /\ \E j \in Eligible : s_snapshot[j] = "active" /\ j \in DOMAIN s_submitted

\* C27 (sweep frame and exactly-once removal), the claim as stated: a call
\* that could read the queue ends without an exception, and has removed
\* from submitted_jobs the finished jobs and the tracked jobs in the error
\* state, and nothing else.
C27_SweepFrame ==
    (SweepOver /\ s_exc # "IndexError") =>
        /\ s_exc = "none"
        /\ s_submitted =
               DictDel(s_before, s_finished \cup s_errored)

\* C28 (a missing output log does not stop the sweep), the claim as
\* stated: when a call that could read the queue is over, every finished
\* job whose queue-output file was missing has been cleaned and is no
\* longer tracked, and every other finished job has been cleaned too.
C28_MissingLogTolerated ==
    (SweepOver /\ s_exc # "IndexError" /\ s_warned # {}) =>
        /\ s_cleaned = s_finished
        /\ s_warned \cap DOMAIN s_submitted = {}

\* C34 (only the driver's own jobs are cancelled and untracked), the claim
\* as stated: a call that could read the queue and found in the error
\* state only entries it does not track ends without an exception and has
\* removed nothing but finished jobs from submitted_jobs.
C34_ForeignErrorsLeftAlone ==
    (SweepOver /\ s_exc # "IndexError"
         /\ s_errored \cap DOMAIN s_before = {}) =>
        /\ s_exc = "none"
        /\ s_submitted = DictDel(s_before, s_finished)

(***************************************************************************)
(* Properties of import_qstat (specification SpecQstat)                    *)
(***************************************************************************)
\* the lines of the output that are neither header nor detail lines
RecordLines(lines) ==
    SelectSeq(lines, LAMBDA l : l.kind \notin {"header", "detail"})

\* the output is k records of two lines, a job-ID line and then a
\* Full jobname line, with header and detail lines anywhere between them
WellFormed(lines) ==
    LET recs == RecordLines(lines)
    IN  /\ Len(recs) % 2 = 0
        /\ \A n \in 1 .. Len(recs) :
             recs[n].kind = IF n % 2 = 1 THEN "id" ELSE "name"

\* the i-th job-ID line with the i-th Full jobname line
Paired(lines) ==
    LET ids == SelectSeq(lines, LAMBDA l : l.kind = "id")
        names == SelectSeq(lines, LAMBDA l : l.kind = "name")
    IN  [n \in 1 .. Len(ids) |->
            <<ids[n].id, names[n].name, ids[n].state, ids[n].start>>]

QstatOver == q_pc \in {"returned", "raised"}

\* C31: on an output of k well-formed two-line records, with header and
\* detail lines between them, import_qstat returns k entries in order, the
\* i-th made of the id, state and start of the i-th job-ID line and the
\* name of the i-th Full jobname line.
C31_PositionalPairing ==
    (QstatOver /\ WellFormed(q_lines)) =>
        /\ q_pc = "returned"
        /\ q_jobs = Paired(q_lines)

\* two records with different ids and names, with a header or detail line
\* among their lines, have been paired
C31_Witness ==
    /\ q_pc = "returned"
    /\ WellFormed(q_lines)
    /\ Len(q_jobs) = 2
    /\ q_jobs[1][1] # q_jobs[2][1]
    /\ q_jobs[1][2] # q_jobs[2][2]
    /\ \E n \in 1 .. Len(q_lines) : q_lines[n].kind \in {"header", "detail"}

(***************************************************************************)
(* Properties of concurrent drivers (specification SpecDrivers)            *)
(***************************************************************************)
\* C38 (overshoot bound with concurrent drivers): with k drivers of one
\* owner and nobody else submitting for the owner, the owner never has
\* more than MAX_PARALLEL_JOBS + k - 1 entries in the queue.
C38_OvershootBound ==
    m_entries <= MAX_PARALLEL_JOBS + m_k - 1

\* the bound is reached: every one of MaxDrivers drivers read fewer than
\* MAX_PARALLEL_JOBS entries, and every one has submitted since
C38_Witness ==
    /\ m_k = MaxDrivers
    /\ m_k > 1
    /\ m_entries = MAX_PARALLEL_JOBS + m_k - 1

(***************************************************************************)
(* Properties of successive bootstraps (specification SpecBoot)            *)
(***************************************************************************)
\* C40 (a failed bootstrap is not taken for an installed driver), the
\* claim as stated: in every run in which the presence check found the
\* code directory, the driver code had been transferred and unpacked
\* there.
C40_PresentMeansInstalled ==
    \A i \in DOMAIN b_log :
        b_log[i].present => b_log[i].before = "installed"

=============================================================================
